---- MODULE Spec2Model ----
(***************************************************************************)
(* The FM-radio receiver session of fmradio/jni/android_fmradio_Receiver.cpp *)
(* as a state machine: the session record fmReceiverSession guarded by its   *)
(* data mutex, the caller entry points, the detached scan workers, the       *)
(* vendor forced-reset callback and the callbacks to the notification layer. *)
(*                                                                           *)
(* A thread's step runs from one lock operation / blocking point to the      *)
(* next.  Vendor calls made inside a step are logged in vcalls with the      *)
(* lock status of the calling thread; deliveries to the Java layer are       *)
(* logged in sent.  Both logs are per thread and per activity.               *)
(***************************************************************************)
EXTENDS Integers, Sequences, FiniteSets, TLC

\* ------------------------------------------------------------------ bounds
\* number of scan-worker threads that may exist at the same time
MaxWorkers == 2
\* number of operations the caller issues
MaxOps == 3
\* number of forced resets the vendor raises
MaxForcedResets == 1

\* ------------------------------------------------------------- threads
Caller == "caller"
VendorThread == "vendor"
WorkerNames == <<"w1", "w2", "w3", "w4">>
Workers == {WorkerNames[i] : i \in 1..MaxWorkers}
Threads == {Caller, VendorThread} \cup Workers
None == "none"

\* ------------------------------------------------------- states, events
FMRADIO_STATE_IDLE == "Idle"
FMRADIO_STATE_STARTING == "Starting"
FMRADIO_STATE_STARTED == "Started"
FMRADIO_STATE_PAUSED == "Paused"
FMRADIO_STATE_SCANNING == "Scanning"
FMRADIO_STATE_E_C == "ErrorCondition"
FMRADIO_STATE_RESETTING == "Resetting"

\* column order of the transition table
StateOrder ==
    << FMRADIO_STATE_IDLE, FMRADIO_STATE_STARTING, FMRADIO_STATE_STARTED,
       FMRADIO_STATE_PAUSED, FMRADIO_STATE_SCANNING,
       FMRADIO_STATE_E_C, FMRADIO_STATE_RESETTING >>

StateIndex(s) == CHOOSE i \in 1..Len(StateOrder) : StateOrder[i] = s

\* the rows of the table of valid transitions: one row per event, one
\* column per state in the order IDLE, STARTING, STARTED, PAUSED, SCANNING,
\* E_C, RESETTING
FMRADIO_EVENT_START ==
    << TRUE,  FALSE, FALSE, FALSE, FALSE, FALSE, FALSE >>
\* variant of the START_ASYNC row: a started session can be started again
FMRADIO_EVENT_START_ASYNC_Started ==
    << TRUE,  FALSE, TRUE,  FALSE, FALSE, FALSE, FALSE >>
FMRADIO_EVENT_START_ASYNC ==
    << TRUE,  FALSE, FALSE, FALSE, FALSE, FALSE, FALSE >>
FMRADIO_EVENT_PAUSE ==
    << FALSE, FALSE, TRUE,  TRUE,  FALSE, FALSE, FALSE >>
FMRADIO_EVENT_RESUME ==
    << FALSE, FALSE, TRUE,  TRUE,  FALSE, FALSE, FALSE >>
\* variant of the RESET row: reset is refused while a scan is in flight
FMRADIO_EVENT_RESET_NotScanning ==
    << TRUE,  TRUE,  TRUE,  TRUE,  FALSE, TRUE,  FALSE >>
FMRADIO_EVENT_RESET ==
    << TRUE,  TRUE,  TRUE,  TRUE,  TRUE,  TRUE,  FALSE >>
FMRADIO_EVENT_FORCED_PAUSE ==
    << TRUE,  TRUE,  TRUE,  TRUE,  TRUE,  TRUE,  FALSE >>
FMRADIO_EVENT_GET_PARAMETER ==
    << FALSE, FALSE, TRUE,  TRUE,  FALSE, FALSE, FALSE >>
\* variant of the SET_PARAMETER row: parameters can be set while a scan runs
FMRADIO_EVENT_SET_PARAMETER_Scanning ==
    << FALSE, FALSE, TRUE,  TRUE,  TRUE,  FALSE, FALSE >>
FMRADIO_EVENT_SET_PARAMETER ==
    << FALSE, FALSE, TRUE,  TRUE,  FALSE, FALSE, FALSE >>
\* variant of the STOP_SCAN row: stopping is accepted during a scan only
FMRADIO_EVENT_STOP_SCAN_OnlyScanning ==
    << FALSE, FALSE, FALSE, FALSE, TRUE,  FALSE, FALSE >>
FMRADIO_EVENT_STOP_SCAN ==
    << TRUE,  TRUE,  TRUE,  TRUE,  TRUE,  TRUE,  FALSE >>
FMRADIO_EVENT_EXTRA_COMMAND ==
    << TRUE,  TRUE,  TRUE,  TRUE,  TRUE,  TRUE,  FALSE >>
\* variant of the GET_SIGNAL_STRENGTH row: the query is accepted during a scan
FMRADIO_EVENT_GET_SIGNAL_STRENGTH_Scanning ==
    << FALSE, FALSE, TRUE,  FALSE, TRUE,  FALSE, FALSE >>
\* variant of the GET_SIGNAL_STRENGTH row: the query is accepted in PAUSED
FMRADIO_EVENT_GET_SIGNAL_STRENGTH_Paused ==
    << FALSE, FALSE, TRUE,  TRUE,  FALSE, FALSE, FALSE >>
FMRADIO_EVENT_GET_SIGNAL_STRENGTH ==
    << FALSE, FALSE, TRUE,  FALSE, FALSE, FALSE, FALSE >>
FMRADIO_EVENT_SCAN ==
    << FALSE, FALSE, TRUE,  TRUE,  FALSE, FALSE, FALSE >>
FMRADIO_EVENT_FULL_SCAN ==
    << FALSE, FALSE, TRUE,  TRUE,  FALSE, FALSE, FALSE >>
\* variant of the BLOCK_SCAN row: a block scan is accepted during a scan
FMRADIO_EVENT_BLOCK_SCAN_Scanning ==
    << FALSE, FALSE, FALSE, FALSE, TRUE,  FALSE, FALSE >>
FMRADIO_EVENT_BLOCK_SCAN ==
    << FALSE, FALSE, FALSE, FALSE, FALSE, FALSE, FALSE >>

IsValidRxEventForState ==
    [ START |-> FMRADIO_EVENT_START,
      START_ASYNC |-> FMRADIO_EVENT_START_ASYNC,
      PAUSE |-> FMRADIO_EVENT_PAUSE,
      RESUME |-> FMRADIO_EVENT_RESUME,
      RESET |-> FMRADIO_EVENT_RESET,
      FORCED_PAUSE |-> FMRADIO_EVENT_FORCED_PAUSE,
      GET_PARAMETER |-> FMRADIO_EVENT_GET_PARAMETER,
      SET_PARAMETER |-> FMRADIO_EVENT_SET_PARAMETER,
      STOP_SCAN |-> FMRADIO_EVENT_STOP_SCAN,
      EXTRA_COMMAND |-> FMRADIO_EVENT_EXTRA_COMMAND,
      GET_SIGNAL_STRENGTH |-> FMRADIO_EVENT_GET_SIGNAL_STRENGTH,
      SCAN |-> FMRADIO_EVENT_SCAN,
      FULL_SCAN |-> FMRADIO_EVENT_FULL_SCAN,
      BLOCK_SCAN |-> FMRADIO_EVENT_BLOCK_SCAN ]

\* ------------------------------------------------------- result codes
FMRADIO_OK == 0
FMRADIO_IO_ERROR == -1
FMRADIO_INVALID_STATE == -2
FMRADIO_UNSUPPORTED_OPERATION == -3

\* --------------------------------------------------- the vendor driver
VendorFns ==
    { "start", "reset", "pause", "resume", "scan", "full_scan",
      "get_signal_strength", "stop_scan",
      "set_automatic_af_switching", "set_automatic_ta_switching",
      "set_force_mono", "set_threshold", "get_threshold",
      "is_playing_in_stereo", "is_rds_data_supported",
      "is_tuned_to_valid_channel" }

\* the functions of the parameter operations and of the capability queries
ParamFns ==
    { "set_automatic_af_switching", "set_automatic_ta_switching",
      "set_force_mono", "set_threshold", "get_threshold" }
QueryFns ==
    { "is_playing_in_stereo", "is_rds_data_supported", "is_tuned_to_valid_channel" }

\* the function tables a loaded vendor library may provide
CapSets ==
    { VendorFns,
      VendorFns \ ({"get_signal_strength"} \cup ParamFns \cup QueryFns),
      VendorFns \ {"scan", "full_scan"} }

\* values a vendor scan may return: an error or a found frequency
ScanResults == {-1, 983}
\* values the vendor signal-strength query may return
SignalValues == {-1, 7}
\* results of a vendor full scan: item count (or error) and the two arrays
FullScanResults ==
    { [n |-> -1, freqs |-> <<>>, rssi |-> <<>>],
      [n |-> 0, freqs |-> <<>>, rssi |-> <<>>],
      [n |-> 2, freqs |-> <<875, 983>>, rssi |-> <<3, 7>>] }
SeekDirections == {"up", "down"}
ResetReasons == {"hw_failure", "other"}

\* ------------------------------------------------------------- state
VARIABLES
    state,            \* fmReceiverSession.state
    oldState,         \* fmReceiverSession.oldState
    pendingPause,     \* fmReceiverSession.pendingPause
    lastScanAborted,  \* fmReceiverSession.lastScanAborted
    isRegistered,     \* fmReceiverSession.isRegistered
    vendorMethods,    \* the non-NULL entries of *fmReceiverSession.vendorMethods_p
    mutex,            \* holder of *fmReceiverSession.dataMutex_p, or None
    jvmOk,            \* whether threads can attach to the JVM and find the notify methods
    pc,               \* position of every thread
    loc,              \* locals of every thread's current activity
    sent,             \* Java notifications delivered by the thread's current activity
    vcalls,           \* vendor functions called by the thread's current activity
    nOps,             \* caller operations issued so far
    nForcedResets     \* forced resets the vendor has raised so far

vars ==
    << state, oldState, pendingPause, lastScanAborted, isRegistered,
       vendorMethods, mutex, jvmOk, pc, loc, sent, vcalls, nOps, nForcedResets >>


NoMsg == [ev |-> "none", args |-> <<>>]

NoLocals ==
    [ op |-> "none", arg |-> "none", retval |-> 0, got |-> "none",
      oldS |-> FMRADIO_STATE_IDLE, sig |-> -1, freqs |-> <<>>, rssi |-> <<>>,
      cont |-> "none", msg |-> NoMsg, abortedAtEntry |-> FALSE,
      abortedAtReturn |-> FALSE, overridden |-> FALSE,
      reqS |-> FMRADIO_STATE_IDLE, before |-> {} ]

Begin(op, arg) == [NoLocals EXCEPT !.op = op, !.arg = arg]

\* overridden is a history field for the properties: thread t resets the
\* session, which overrides every scan that has been accepted and whose
\* worker has not terminated; the program keeps no such mark.
ScansOverridden(l, t) ==
    [x \in DOMAIN l |->
       IF x # t /\ l[x].op \in {"scan", "full_scan"}
       THEN [l[x] EXCEPT !.overridden = TRUE]
       ELSE l[x]]

Init ==
    /\ state = FMRADIO_STATE_IDLE
    /\ oldState = FMRADIO_STATE_IDLE
    /\ pendingPause = FALSE
    /\ lastScanAborted = FALSE
    /\ isRegistered = FALSE
    /\ vendorMethods = {}
    /\ mutex = None
    /\ jvmOk = TRUE
    /\ pc = [t \in Threads |-> IF t \in Workers THEN "free" ELSE "idle"]
    /\ loc = [t \in Threads |-> NoLocals]
    /\ sent = [t \in Threads |-> <<>>]
    /\ vcalls = [t \in Threads |-> <<>>]
    /\ nOps = 0
    /\ nForcedResets = 0

\* ------------------------------------------------ helpers of the session
\* androidFmRadioIsValidEventForState: the table cell of the event in the current state
androidFmRadioIsValidEventForState(event) ==
    IsValidRxEventForState[event][StateIndex(state)]

\* variant of StateChangedMsg: the two states are passed in the other order
StateChangedMsgSwapped(newState, old) ==
    [ev |-> "onStateChanged", args |-> <<old, newState>>]
StateChangedMsg(newState, old) == [ev |-> "onStateChanged", args |-> <<newState, old>>]
ErrorMsg == [ev |-> "onError", args |-> <<>>]
StartedMsg == [ev |-> "onStarted", args |-> <<>>]
\* variant of ScanMsg: the result never says that the scan was aborted
ScanMsgNeverAborted(freq, strength, aborted) ==
    [ev |-> "onScan", args |-> <<freq, strength, FALSE>>]
ScanMsg(freq, strength, aborted) == [ev |-> "onScan", args |-> <<freq, strength, aborted>>]
FullScanMsg(n, freqs, rssi, aborted) ==
    [ev |-> "onFullScan", args |-> <<n, freqs, rssi, aborted>>]
\* variant of ForcedResetMsg: the forced reset is reported through onError
ForcedResetMsgAsError(reason) == ErrorMsg
ForcedResetMsg(reason) == [ev |-> "onForcedReset", args |-> <<reason>>]
ExtraCommandMsg(command) == [ev |-> "onExtraCommand", args |-> <<command>>]

\* the events the vendor layer reports from its own thread
VendorEvents ==
    { "onRdsDataFound", "onSignalStrengthChanged", "onPlayingInStereo",
      "onAutomaticSwitch" }
VendorEventMsg(ev) == [ev |-> ev, args |-> <<>>]

\* the locals of a thread that enters a callback helper with message m and
\* continues at k when the helper returns
Calling(l, m, k) == [l EXCEPT !.msg = m, !.cont = k]

\* the threads that have changed the state and are still inside the
\* delivery of their onStateChanged
PendingStateChanges ==
    {x \in DOMAIN pc : pc[x] = "cb_call" /\ loc[x].msg.ev = "onStateChanged"}

\* FMRADIO_SET_STATE: the state is assigned (state' in the action) and
\* callbacks_p->onStateChanged is called with the new and the old state.
\* before is a history field for the properties: the threads whose earlier
\* state changes are not yet delivered when this one is made; the program
\* keeps no such record.
FMRADIO_SET_STATE(l, newState, k) ==
    Calling([l EXCEPT !.before = PendingStateChanges],
            StateChangedMsg(newState, state), k)

\* ---------------------------------------- callbacks to the Java layer
\* variant of LockDuringDelivery: the thread keeps the lock for the Java call
LockDuringDeliveryKept(t) == t

\* who holds the lock during env->CallVoidMethod(jobj, notifyMethod, ...):
\* the helper has unlocked
LockDuringDelivery(t) == None

\* variant of LockAfterSkippedDelivery: the helper unlocks before it finds
\* that it cannot deliver
LockAfterSkippedDeliveryReleased(t) == None

\* who holds the lock when the helper returns without a delivery: the helper
\* has not touched the mutex
LockAfterSkippedDelivery(t) == mutex

\* The helper is entered with the lock held.  When the thread cannot attach
\* to the JVM or the notify method is missing it returns at once, lock
\* still held; otherwise it drops the lock for the Java call.
CallbackEnter(t) ==
    /\ pc[t] = "cb"
    /\ \E ok \in (IF jvmOk THEN {TRUE} ELSE BOOLEAN) :
         IF ok
         THEN /\ mutex' = LockDuringDelivery(t)
              /\ pc' = [pc EXCEPT ![t] = "cb_call"]
              /\ loc' = loc
         ELSE /\ mutex' = LockAfterSkippedDelivery(t)
              /\ pc' = [pc EXCEPT ![t] = loc[t].cont]
              /\ loc' = [loc EXCEPT ![t].msg = NoMsg, ![t].cont = "none",
                                     ![t].before = {}]
    /\ UNCHANGED << state, oldState, pendingPause, lastScanAborted, isRegistered,
                    vendorMethods, jvmOk, sent, vcalls >>
    /\ UNCHANGED << nOps, nForcedResets >>

\* env->CallVoidMethod has delivered the notification and the thread takes
\* the lock again (pthread_mutex_lock), then returns to the caller of the
\* helper (the history field before no longer names the thread)
CallbackReturn(t) ==
    /\ pc[t] = "cb_call"
    /\ mutex = None
    /\ mutex' = t
    /\ sent' = [sent EXCEPT ![t] = Append(@, loc[t].msg)]
    /\ pc' = [pc EXCEPT ![t] = loc[t].cont]
    /\ loc' = [x \in DOMAIN loc |->
                IF x = t
                THEN [loc[t] EXCEPT !.msg = NoMsg, !.cont = "none", !.before = {}]
                ELSE [loc[x] EXCEPT !.before = @ \ {t}]]
    /\ UNCHANGED << state, oldState, pendingPause, lastScanAborted, isRegistered,
                    vendorMethods, jvmOk, vcalls >>
    /\ UNCHANGED << nOps, nForcedResets >>

\* variant of ThrownFor: a result of 0 raises the I/O error as well
ThrownForZeroFails(retval) ==
    IF retval = FMRADIO_INVALID_STATE THEN "InvalidState"
    ELSE IF retval <= 0 THEN "IoError"
    ELSE "none"

\* ------------------------------------------------- common exit of calls
\* the drop_lock label: raise the exception the return value asks for, unlock
ThrownFor(retval) ==
    IF retval = FMRADIO_INVALID_STATE THEN "InvalidState"
    ELSE IF retval < 0 THEN "IoError"
    ELSE "none"

\* the call raises that exception, unlocks and returns to the Java layer
DropLock(t) ==
    /\ pc[t] = "drop_lock"
    /\ mutex = t
    /\ mutex' = None
    /\ pc' = [pc EXCEPT ![t] = "idle"]
    /\ loc' = [loc EXCEPT ![t] = NoLocals]
    /\ sent' = [sent EXCEPT ![t] = <<>>]
    /\ vcalls' = [vcalls EXCEPT ![t] = <<>>]
    /\ UNCHANGED << state, oldState, pendingPause, lastScanAborted, isRegistered,
                    vendorMethods, jvmOk >>
    /\ UNCHANGED << nOps, nForcedResets >>

\* ------------------------------------------------------------ getState
androidFmRadioRxGetState(t) ==
    /\ pc[t] = "idle"
    /\ nOps < MaxOps
    /\ nOps' = nOps + 1
    /\ mutex = None
    /\ mutex' = t
    /\ loc' = [loc EXCEPT ![t] = [Begin("getState", "none") EXCEPT !.got = state]]
    /\ pc' = [pc EXCEPT ![t] = "drop_lock"]
    /\ UNCHANGED << state, oldState, pendingPause, lastScanAborted, isRegistered,
                    vendorMethods, jvmOk, sent, vcalls >>
    /\ UNCHANGED nForcedResets

\* ------------------------------------------------------- scan requests
FreeWorkers == {w \in Workers : pc[w] = "free"}
WorkerIndex(w) == CHOOSE i \in 1..MaxWorkers : WorkerNames[i] = w
\* the slot the next created thread gets
NextWorker ==
    CHOOSE w \in FreeWorkers : \A v \in FreeWorkers : WorkerIndex(w) <= WorkerIndex(v)

\* a spawned worker that has not terminated yet
InFlight(w) == pc[w] # "free"

\* variant of ScanEvent: the request is validated as a stop-scan event
ScanEventStopScan(kind) == "STOP_SCAN"

\* the event a scan request of the given kind is validated as
ScanEvent(kind) == IF kind = "scan" THEN "SCAN" ELSE "FULL_SCAN"

\* androidFmRadioRxScan / androidFmRadioRxStartFullScan up to the state change:
\* lock, validate the event, check the vendor function, remember the state
\* and enter SCANNING.  reqS is a history field for the properties: the state
\* the request was validated in; the program keeps it in oldState only.
RxScanRequest(t, kind, arg) ==
    /\ pc[t] = "idle"
    /\ nOps < MaxOps
    /\ nOps' = nOps + 1
    /\ mutex = None
    /\ mutex' = t
    /\ IF ~androidFmRadioIsValidEventForState(ScanEvent(kind))
       THEN /\ loc' = [loc EXCEPT ![t] =
                        [Begin(kind, arg) EXCEPT !.retval = FMRADIO_INVALID_STATE]]
            /\ pc' = [pc EXCEPT ![t] = "drop_lock"]
            /\ UNCHANGED << state, oldState >>
       ELSE IF kind \notin vendorMethods
       THEN /\ loc' = [loc EXCEPT ![t] =
                        [Begin(kind, arg) EXCEPT !.retval = FMRADIO_UNSUPPORTED_OPERATION]]
            /\ pc' = [pc EXCEPT ![t] = "drop_lock"]
            /\ UNCHANGED << state, oldState >>
       ELSE /\ FreeWorkers # {}
            /\ oldState' = state
            /\ state' = FMRADIO_STATE_SCANNING
            /\ loc' = [loc EXCEPT ![t] =
                        FMRADIO_SET_STATE([Begin(kind, arg) EXCEPT !.reqS = state],
                                          FMRADIO_STATE_SCANNING, "scan_spawn")]
            /\ pc' = [pc EXCEPT ![t] = "cb"]
    /\ UNCHANGED << pendingPause, lastScanAborted, isRegistered, vendorMethods,
                    jvmOk, sent, vcalls >>
    /\ UNCHANGED nForcedResets

androidFmRadioRxScan(t) ==
    \E dir \in SeekDirections : RxScanRequest(t, "scan", dir)

androidFmRadioRxStartFullScan(t) == RxScanRequest(t, "full_scan", "none")

\* variant of ScanSpawnFailedState: the state of before the request is restored
ScanSpawnFailedStateRestored == oldState

\* the state a request whose worker could not be created puts the session in
ScanSpawnFailedState == FMRADIO_STATE_IDLE

\* the rest of the request: clear lastScanAborted and create the worker
\* thread; when pthread_create fails the session is put to IDLE
RxScanSpawn(t) ==
    /\ pc[t] = "scan_spawn"
    /\ mutex = t
    /\ lastScanAborted' = FALSE
    /\ \E created \in BOOLEAN :
         IF created
         THEN /\ pc' = [pc EXCEPT ![t] = "drop_lock", ![NextWorker] = "w_start"]
              /\ loc' = [loc EXCEPT ![NextWorker] =
                          [NoLocals EXCEPT !.op = loc[t].op, !.arg = loc[t].arg,
                                           !.overridden = loc[t].overridden,
                                           !.reqS = loc[t].reqS]]
              /\ state' = state
         ELSE /\ state' = ScanSpawnFailedState
              /\ loc' = [loc EXCEPT ![t] =
                          FMRADIO_SET_STATE([@ EXCEPT !.retval = FMRADIO_IO_ERROR],
                                            ScanSpawnFailedState, "drop_lock")]
              /\ pc' = [pc EXCEPT ![t] = "cb"]
    /\ UNCHANGED << oldState, pendingPause, isRegistered, vendorMethods, mutex,
                    jvmOk, sent, vcalls >>
    /\ UNCHANGED << nOps, nForcedResets >>

\* --------------------------------------------------------- scan workers
\* variant of ScanIsStale: a worker that never notices that the state changed
ScanIsStaleNever(st) == FALSE

\* "if state has changed we should keep it"
ScanIsStale(st) == st # FMRADIO_STATE_SCANNING

\* variant of ScanNeedsVendorPause: only a chip that was woken up on entry
\* is put back to sleep
ScanNeedsVendorPauseWokenOnly(old, pending) == old = FMRADIO_STATE_PAUSED

\* "put back to sleep if we did a temporary wake-up"
ScanNeedsVendorPause(old, pending) == old = FMRADIO_STATE_PAUSED \/ pending

\* variant of ScanRestoredState: a pending pause is ignored
ScanRestoredStateNoPending(old, pending) == old

\* the state a finishing worker sets
ScanRestoredState(old, pending) == IF pending THEN FMRADIO_STATE_PAUSED ELSE old

\* variant of ScanSucceeded: a result of 0 is reported as an error
ScanSucceededPositive(retval) == retval > 0

\* variant of ScanSucceeded: every scan is reported as an error
ScanSucceededNever(retval) == FALSE

\* the worker reports a result, not an error
ScanSucceeded(retval) == retval >= 0

\* execute_androidFmRadioRxFullScan reads oldState in its declarations,
\* before it takes the lock
WFullEntry(w) ==
    /\ pc[w] = "w_start"
    /\ loc[w].op = "full_scan"
    /\ loc' = [loc EXCEPT ![w].oldS = oldState]
    /\ pc' = [pc EXCEPT ![w] = "w_lock"]
    /\ UNCHANGED << state, oldState, pendingPause, lastScanAborted, isRegistered,
                    vendorMethods, mutex, jvmOk, sent, vcalls >>
    /\ UNCHANGED << nOps, nForcedResets >>

\* variant of LockDuringVendorScan: the worker keeps the lock
LockDuringVendorScanKept(w) == w

\* who holds the lock when the worker calls the vendor scan: the worker has
\* unlocked
LockDuringVendorScan(w) == None

\* first critical section of a worker: (read oldState,) resume the chip
\* when the session was paused, unlock.  abortedAtEntry is a history field
\* for the properties: the value lastScanAborted has in this critical
\* section; the worker itself keeps no copy of it.
WEnter(w) ==
    /\ \/ pc[w] = "w_start" /\ loc[w].op = "scan"
       \/ pc[w] = "w_lock" /\ loc[w].op = "full_scan"
    /\ mutex = None
    /\ mutex' = LockDuringVendorScan(w)
    /\ LET old == IF loc[w].op = "scan" THEN oldState ELSE loc[w].oldS IN
         /\ loc' = [loc EXCEPT ![w].oldS = old,
                                ![w].abortedAtEntry = lastScanAborted]
         /\ vcalls' = [vcalls EXCEPT ![w] =
                         IF old = FMRADIO_STATE_PAUSED
                         THEN Append(@, [fn |-> "resume", locked |-> TRUE])
                         ELSE @]
    /\ pc' = [pc EXCEPT ![w] = "w_vendor"]
    /\ UNCHANGED << state, oldState, pendingPause, lastScanAborted, isRegistered,
                    vendorMethods, jvmOk, sent >>
    /\ UNCHANGED << nOps, nForcedResets >>

\* execute_androidFmRadioRxScan from the vendor scan call on: the call,
\* made without the lock, returns r; lock; keep a changed state, else put the
\* chip back to sleep and restore the state.  abortedAtReturn is a history
\* field for the properties: the value lastScanAborted has when the worker
\* has the lock again.
WScanFinal(w) ==
    /\ pc[w] = "w_vendor"
    /\ loc[w].op = "scan"
    /\ mutex = None
    /\ mutex' = w
    /\ \E r \in ScanResults :
         IF ScanIsStale(state)
         THEN /\ pendingPause' = FALSE
              /\ loc' = [loc EXCEPT ![w] =
                          Calling([@ EXCEPT !.retval = -1,
                                             !.abortedAtReturn = lastScanAborted],
                                  IF ScanSucceeded(-1)
                                  THEN ScanMsg(-1, loc[w].sig, lastScanAborted)
                                  ELSE ErrorMsg,
                                  "w_exit")]
              /\ vcalls' = [vcalls EXCEPT ![w] =
                              Append(@, [fn |-> "scan", locked |-> FALSE])]
              /\ state' = state
         ELSE /\ vcalls' = [vcalls EXCEPT ![w] =
                              IF ScanNeedsVendorPause(loc[w].oldS, pendingPause)
                              THEN @ \o << [fn |-> "scan", locked |-> FALSE],
                                           [fn |-> "pause", locked |-> TRUE] >>
                              ELSE Append(@, [fn |-> "scan", locked |-> FALSE])]
              /\ state' = ScanRestoredState(loc[w].oldS, pendingPause)
              /\ loc' = [loc EXCEPT ![w] =
                          FMRADIO_SET_STATE([@ EXCEPT !.retval = r,
                                               !.abortedAtReturn = lastScanAborted],
                                            ScanRestoredState(loc[w].oldS, pendingPause), "w_scan_post")]
              /\ UNCHANGED pendingPause
    /\ pc' = [pc EXCEPT ![w] = "cb"]
    /\ UNCHANGED << oldState, lastScanAborted, isRegistered, vendorMethods,
                    jvmOk, sent >>
    /\ UNCHANGED << nOps, nForcedResets >>

\* after the state change: fetch the signal strength of a found frequency,
\* clear pendingPause, report
WScanPost(w) ==
    /\ pc[w] = "w_scan_post"
    /\ mutex = w
    /\ pendingPause' = FALSE
    /\ LET fetch == loc[w].retval >= 0 /\ "get_signal_strength" \in vendorMethods IN
         /\ \E s \in (IF fetch THEN SignalValues ELSE {loc[w].sig}) :
              loc' = [loc EXCEPT ![w] =
                       Calling([@ EXCEPT !.sig = s],
                               IF ScanSucceeded(loc[w].retval)
                               THEN ScanMsg(loc[w].retval, s, lastScanAborted)
                               ELSE ErrorMsg,
                               "w_exit")]
         /\ vcalls' = [vcalls EXCEPT ![w] =
                         IF fetch
                         THEN Append(@, [fn |-> "get_signal_strength", locked |-> TRUE])
                         ELSE @]
    /\ pc' = [pc EXCEPT ![w] = "cb"]
    /\ UNCHANGED << state, oldState, lastScanAborted, isRegistered, vendorMethods,
                    mutex, jvmOk, sent >>
    /\ UNCHANGED << nOps, nForcedResets >>

\* execute_androidFmRadioRxFullScan from the vendor full_scan call on
\* (abortedAtReturn as in WScanFinal)
WFullFinal(w) ==
    /\ pc[w] = "w_vendor"
    /\ loc[w].op = "full_scan"
    /\ mutex = None
    /\ mutex' = w
    /\ vcalls' = [vcalls EXCEPT ![w] = Append(@, [fn |-> "full_scan", locked |-> FALSE])]
    /\ \E r \in FullScanResults :
         IF ScanIsStale(state)
         THEN /\ loc' = [loc EXCEPT ![w] =
                          Calling([@ EXCEPT !.retval = -1,
                                             !.abortedAtReturn = lastScanAborted],
                                  IF ScanSucceeded(-1)
                                  THEN FullScanMsg(-1, r.freqs, r.rssi, lastScanAborted)
                                  ELSE ErrorMsg,
                                  "w_exit")]
              /\ state' = state
         ELSE /\ state' = ScanRestoredState(loc[w].oldS, pendingPause)
              /\ loc' = [loc EXCEPT ![w] =
                          FMRADIO_SET_STATE([@ EXCEPT !.retval = r.n, !.freqs = r.freqs,
                                            !.rssi = r.rssi,
                                            !.abortedAtReturn = lastScanAborted],
                                            ScanRestoredState(loc[w].oldS, pendingPause), "w_full_post")]
    /\ pc' = [pc EXCEPT ![w] = "cb"]
    /\ UNCHANGED << oldState, pendingPause, lastScanAborted, isRegistered,
                    vendorMethods, jvmOk, sent >>
    /\ UNCHANGED << nOps, nForcedResets >>

WFullPost(w) ==
    /\ pc[w] = "w_full_post"
    /\ mutex = w
    /\ pendingPause' = FALSE
    /\ loc' = [loc EXCEPT ![w] =
                Calling(@, IF ScanSucceeded(loc[w].retval)
                           THEN FullScanMsg(loc[w].retval, loc[w].freqs, loc[w].rssi,
                                            lastScanAborted)
                           ELSE ErrorMsg,
                        "w_exit")]
    /\ pc' = [pc EXCEPT ![w] = "cb"]
    /\ UNCHANGED << state, oldState, lastScanAborted, isRegistered, vendorMethods,
                    mutex, jvmOk, sent, vcalls >>
    /\ UNCHANGED << nOps, nForcedResets >>

\* variant of WExit: the worker terminates without unlocking
WExitKeepsLock(w) ==
    /\ pc[w] = "w_exit"
    /\ mutex = w
    /\ pc' = [pc EXCEPT ![w] = "free"]
    /\ loc' = [loc EXCEPT ![w] = NoLocals]
    /\ sent' = [sent EXCEPT ![w] = <<>>]
    /\ vcalls' = [vcalls EXCEPT ![w] = <<>>]
    /\ UNCHANGED << state, oldState, pendingPause, lastScanAborted, isRegistered,
                    vendorMethods, mutex, jvmOk >>
    /\ UNCHANGED << nOps, nForcedResets >>

\* unlock and pthread_exit
WExit(w) ==
    /\ pc[w] = "w_exit"
    /\ mutex = w
    /\ mutex' = None
    /\ pc' = [pc EXCEPT ![w] = "free"]
    /\ loc' = [loc EXCEPT ![w] = NoLocals]
    /\ sent' = [sent EXCEPT ![w] = <<>>]
    /\ vcalls' = [vcalls EXCEPT ![w] = <<>>]
    /\ UNCHANGED << state, oldState, pendingPause, lastScanAborted, isRegistered,
                    vendorMethods, jvmOk >>
    /\ UNCHANGED << nOps, nForcedResets >>

\* ------------------------------------------- forced reset by the vendor
\* variant of ForcedResetChangesState: the state is set in IDLE too
ForcedResetChangesStateAlways(st) == TRUE

\* the state is forced to IDLE unless it is IDLE already
ForcedResetChangesState(st) == st # FMRADIO_STATE_IDLE

\* androidFmRadioRxCallbackOnVendorForcedReset: lock, force IDLE
RxCallbackOnVendorForcedReset(t) ==
    /\ t = VendorThread
    /\ pc[t] = "idle"
    /\ nForcedResets < MaxForcedResets
    /\ nForcedResets' = nForcedResets + 1
    /\ mutex = None
    /\ mutex' = t
    /\ \E reason \in ResetReasons :
         IF ForcedResetChangesState(state)
         THEN /\ state' = FMRADIO_STATE_IDLE
              /\ loc' = ScansOverridden(
                          [loc EXCEPT ![t] =
                             FMRADIO_SET_STATE(Begin("forcedReset", reason), FMRADIO_STATE_IDLE, "fr_notify")], t)
              /\ pc' = [pc EXCEPT ![t] = "cb"]
         ELSE /\ state' = state
              /\ loc' = ScansOverridden([loc EXCEPT ![t] = Begin("forcedReset", reason)], t)
              /\ pc' = [pc EXCEPT ![t] = "fr_notify"]
    /\ UNCHANGED << oldState, pendingPause, lastScanAborted, isRegistered,
                    vendorMethods, jvmOk, sent, vcalls >>
    /\ UNCHANGED nOps

\* ... then callbacks_p->onForcedReset(reason)
ForcedResetNotify(t) ==
    /\ pc[t] = "fr_notify"
    /\ mutex = t
    /\ loc' = [loc EXCEPT ![t] = Calling(@, ForcedResetMsg(loc[t].arg), "fr_exit")]
    /\ pc' = [pc EXCEPT ![t] = "cb"]
    /\ UNCHANGED << state, oldState, pendingPause, lastScanAborted, isRegistered,
                    vendorMethods, mutex, jvmOk, sent, vcalls >>
    /\ UNCHANGED << nOps, nForcedResets >>

\* ... then unlock
ForcedResetExit(t) ==
    /\ pc[t] = "fr_exit"
    /\ mutex = t
    /\ mutex' = None
    /\ pc' = [pc EXCEPT ![t] = "idle"]
    /\ loc' = [loc EXCEPT ![t] = NoLocals]
    /\ sent' = [sent EXCEPT ![t] = <<>>]
    /\ vcalls' = [vcalls EXCEPT ![t] = <<>>]
    /\ UNCHANGED << state, oldState, pendingPause, lastScanAborted, isRegistered,
                    vendorMethods, jvmOk >>
    /\ UNCHANGED << nOps, nForcedResets >>

\* ------------------------------------------ events of the vendor layer
\* androidFmRadioRxCallbackOnRDSDataFound, ...OnSignalStrengthChanged,
\* ...OnPlayingInStereo, ...OnAutomaticSwitch: the vendor's thread takes the
\* lock itself, then notifies as the other helpers do.  The events are
\* counted with the forced resets: at most MaxForcedResets callbacks of the
\* vendor layer in a run.
RxCallbackOnVendorEvent(t) ==
    /\ t = VendorThread
    /\ pc[t] = "idle"
    /\ nForcedResets < MaxForcedResets
    /\ nForcedResets' = nForcedResets + 1
    /\ mutex = None
    /\ mutex' = t
    /\ \E ev \in VendorEvents :
         loc' = [loc EXCEPT ![t] = Calling(Begin(ev, "none"), VendorEventMsg(ev), "ve_exit")]
    /\ pc' = [pc EXCEPT ![t] = "cb"]
    /\ UNCHANGED << state, oldState, pendingPause, lastScanAborted, isRegistered,
                    vendorMethods, jvmOk, sent, vcalls >>
    /\ UNCHANGED nOps

\* the drop_lock label of these callbacks: unlock
VendorEventExit(t) ==
    /\ pc[t] = "ve_exit"
    /\ mutex = t
    /\ mutex' = None
    /\ pc' = [pc EXCEPT ![t] = "idle"]
    /\ loc' = [loc EXCEPT ![t] = NoLocals]
    /\ sent' = [sent EXCEPT ![t] = <<>>]
    /\ vcalls' = [vcalls EXCEPT ![t] = <<>>]
    /\ UNCHANGED << state, oldState, pendingPause, lastScanAborted, isRegistered,
                    vendorMethods, jvmOk >>
    /\ UNCHANGED << nOps, nForcedResets >>

\* --------------------------------------------------- getSignalStrength
\* androidFmRadioTempResumeIfPaused: vendor resume when the session is paused
androidFmRadioTempResumeIfPaused(calls) ==
    IF state = FMRADIO_STATE_PAUSED /\ "resume" \in vendorMethods
    THEN Append(calls, [fn |-> "resume", locked |-> TRUE])
    ELSE calls

\* androidFmRadioPauseIfTempResumed: vendor pause when the session is paused
androidFmRadioPauseIfTempResumed(calls) ==
    IF state = FMRADIO_STATE_PAUSED /\ "pause" \in vendorMethods
    THEN Append(calls, [fn |-> "pause", locked |-> TRUE])
    ELSE calls

androidFmRadioRxGetSignalStrength(t) ==
    /\ pc[t] = "idle"
    /\ nOps < MaxOps
    /\ nOps' = nOps + 1
    /\ mutex = None
    /\ mutex' = t
    /\ IF ~androidFmRadioIsValidEventForState("GET_SIGNAL_STRENGTH")
       THEN /\ loc' = [loc EXCEPT ![t] =
                        [Begin("getSignalStrength", "none")
                           EXCEPT !.retval = FMRADIO_INVALID_STATE]]
            /\ UNCHANGED vcalls
       ELSE IF "get_signal_strength" \in vendorMethods
       THEN /\ \E s \in SignalValues :
                 loc' = [loc EXCEPT ![t] =
                          [Begin("getSignalStrength", "none") EXCEPT !.retval = s]]
            /\ vcalls' = [vcalls EXCEPT ![t] =
                            androidFmRadioPauseIfTempResumed(
                              Append(androidFmRadioTempResumeIfPaused(@),
                                     [fn |-> "get_signal_strength", locked |-> TRUE]))]
       ELSE /\ loc' = [loc EXCEPT ![t] =
                        [Begin("getSignalStrength", "none")
                           EXCEPT !.retval = FMRADIO_UNSUPPORTED_OPERATION]]
            /\ UNCHANGED vcalls
    /\ pc' = [pc EXCEPT ![t] = "drop_lock"]
    /\ UNCHANGED << state, oldState, pendingPause, lastScanAborted, isRegistered,
                    vendorMethods, jvmOk, sent >>
    /\ UNCHANGED nForcedResets

\* ------------------------------------------------ parameter operations
ParamOps ==
    { "setAutomaticAFSwitching", "setAutomaticTASwitching", "setForceMono",
      "setThreshold", "getThreshold" }

\* the event a parameter operation is validated as
ParamEvent(op) == IF op = "getThreshold" THEN "GET_PARAMETER" ELSE "SET_PARAMETER"

\* the vendor function a parameter operation calls
ParamVendorFn(op) ==
    CASE op = "setAutomaticAFSwitching" -> "set_automatic_af_switching"
      [] op = "setAutomaticTASwitching" -> "set_automatic_ta_switching"
      [] op = "setForceMono" -> "set_force_mono"
      [] op = "setThreshold" -> "set_threshold"
      [] op = "getThreshold" -> "get_threshold"

\* the operations that call androidFmRadioTempResumeIfPaused before and
\* androidFmRadioPauseIfTempResumed after the vendor function
ParamIsBracketed(op) == op \in {"setForceMono", "setThreshold", "getThreshold"}

\* where "goto drop_lock" lands: in setThreshold the label stands after the
\* throw statements, in the other operations before them
ParamInvalidExit(op) == IF op = "setThreshold" THEN "unlock_only" ELSE "drop_lock"

\* values the vendor function may return
ParamResults(op) == IF op = "getThreshold" THEN {-1, 5} ELSE {-1, 0}

\* androidFmRadioRxSetAutomaticAFSwitching, ...TASwitching, ...SetForceMono,
\* ...SetThreshold, ...GetThreshold: lock, validate, call the vendor function
RxParamOp(t, op) ==
    /\ pc[t] = "idle"
    /\ nOps < MaxOps
    /\ nOps' = nOps + 1
    /\ mutex = None
    /\ mutex' = t
    /\ IF ~androidFmRadioIsValidEventForState(ParamEvent(op))
       THEN /\ loc' = [loc EXCEPT ![t] =
                        [Begin(op, "none") EXCEPT !.retval = FMRADIO_INVALID_STATE]]
            /\ pc' = [pc EXCEPT ![t] = ParamInvalidExit(op)]
            /\ UNCHANGED vcalls
       ELSE IF ParamVendorFn(op) \in vendorMethods
       THEN /\ \E r \in ParamResults(op) :
                 loc' = [loc EXCEPT ![t] = [Begin(op, "none") EXCEPT !.retval = r]]
            /\ vcalls' = [vcalls EXCEPT ![t] =
                            IF ParamIsBracketed(op)
                            THEN androidFmRadioPauseIfTempResumed(
                                   Append(androidFmRadioTempResumeIfPaused(@),
                                          [fn |-> ParamVendorFn(op), locked |-> TRUE]))
                            ELSE Append(@, [fn |-> ParamVendorFn(op), locked |-> TRUE])]
            /\ pc' = [pc EXCEPT ![t] = "drop_lock"]
       ELSE /\ loc' = [loc EXCEPT ![t] =
                        [Begin(op, "none") EXCEPT !.retval = FMRADIO_UNSUPPORTED_OPERATION]]
            /\ pc' = [pc EXCEPT ![t] = "drop_lock"]
            /\ UNCHANGED vcalls
    /\ UNCHANGED << state, oldState, pendingPause, lastScanAborted, isRegistered,
                    vendorMethods, jvmOk, sent >>
    /\ UNCHANGED nForcedResets

\* a drop_lock label that only unlocks: no exception is raised on this path
UnlockOnly(t) ==
    /\ pc[t] = "unlock_only"
    /\ mutex = t
    /\ mutex' = None
    /\ pc' = [pc EXCEPT ![t] = "idle"]
    /\ loc' = [loc EXCEPT ![t] = NoLocals]
    /\ sent' = [sent EXCEPT ![t] = <<>>]
    /\ vcalls' = [vcalls EXCEPT ![t] = <<>>]
    /\ UNCHANGED << state, oldState, pendingPause, lastScanAborted, isRegistered,
                    vendorMethods, jvmOk >>
    /\ UNCHANGED << nOps, nForcedResets >>

\* the exception a call is about to raise
Thrown(t) == IF pc[t] = "drop_lock" THEN ThrownFor(loc[t].retval) ELSE "none"

\* --------------------------------------------------- capability queries
Queries ==
    { "isSignalStrengthSupported", "isPlayingInStereo", "isRDSDataSupported",
      "isTunedToValidChannel" }

\* the vendor function a query looks at
QueryVendorFn(q) ==
    CASE q = "isSignalStrengthSupported" -> "get_signal_strength"
      [] q = "isPlayingInStereo" -> "is_playing_in_stereo"
      [] q = "isRDSDataSupported" -> "is_rds_data_supported"
      [] q = "isTunedToValidChannel" -> "is_tuned_to_valid_channel"

\* isSignalStrengthSupported only tests the pointer, the others call the function
QueryCallsVendor(q) == q # "isSignalStrengthSupported"

\* variant of QueryAnswers: a query answers true where the code answers false
QueryAnswersInverted(q, registered, methods) ==
    IF ~registered THEN {"true"}
    ELSE IF QueryVendorFn(q) \notin methods THEN {"true"}
    ELSE IF QueryCallsVendor(q) THEN {"false", "true"}
    ELSE {"true"}

\* the answers a query may give
QueryAnswers(q, registered, methods) ==
    IF ~registered THEN {"false"}
    ELSE IF QueryVendorFn(q) \notin methods THEN {"false"}
    ELSE IF QueryCallsVendor(q) THEN {"false", "true"}
    ELSE {"true"}

\* androidFmRadioRxIsSignalStrengthSupported, ...IsPlayingInStereo,
\* ...IsRDSDataSupported, ...IsTunedToValidChannel
RxQuery(t, q) ==
    /\ pc[t] = "idle"
    /\ nOps < MaxOps
    /\ nOps' = nOps + 1
    /\ mutex = None
    /\ mutex' = t
    /\ \E a \in QueryAnswers(q, isRegistered, vendorMethods) :
         loc' = [loc EXCEPT ![t] = [Begin(q, "none") EXCEPT !.got = a]]
    /\ vcalls' = [vcalls EXCEPT ![t] =
                    IF isRegistered /\ QueryVendorFn(q) \in vendorMethods
                       /\ QueryCallsVendor(q)
                    THEN Append(@, [fn |-> QueryVendorFn(q), locked |-> TRUE])
                    ELSE @]
    /\ pc' = [pc EXCEPT ![t] = "unlock_only"]
    /\ UNCHANGED << state, oldState, pendingPause, lastScanAborted, isRegistered,
                    vendorMethods, jvmOk, sent >>
    /\ UNCHANGED nForcedResets

\* ------------------------------------------- the calls shared with the
\* transmitter (androidFmRadioStart, ...Pause, ...Resume, ...Reset, ...StopScan)
\* start, synchronous: validate, bind the vendor library when none is bound
\* yet, enter STARTING
androidFmRadioStart(t) ==
    /\ pc[t] = "idle"
    /\ nOps < MaxOps
    /\ nOps' = nOps + 1
    /\ mutex = None
    /\ mutex' = t
    /\ IF ~androidFmRadioIsValidEventForState("START")
       THEN /\ loc' = [loc EXCEPT ![t] =
                        [Begin("start", "none") EXCEPT !.retval = FMRADIO_INVALID_STATE]]
            /\ pc' = [pc EXCEPT ![t] = "drop_lock"]
            /\ UNCHANGED << state, isRegistered, vendorMethods >>
       ELSE \E lib \in (IF isRegistered THEN {vendorMethods} ELSE CapSets \cup {{}}) :
              IF lib = {}
              THEN /\ loc' = [loc EXCEPT ![t] =
                               [Begin("start", "none") EXCEPT !.retval = FMRADIO_IO_ERROR]]
                   /\ pc' = [pc EXCEPT ![t] = "drop_lock"]
                   /\ UNCHANGED << state, isRegistered, vendorMethods >>
              ELSE /\ isRegistered' = TRUE
                   /\ vendorMethods' = lib
                   /\ state' = FMRADIO_STATE_STARTING
                   /\ loc' = [loc EXCEPT ![t] =
                               FMRADIO_SET_STATE(Begin("start", "none"), FMRADIO_STATE_STARTING, "start_vendor")]
                   /\ pc' = [pc EXCEPT ![t] = "cb"]
    /\ UNCHANGED << oldState, pendingPause, lastScanAborted, jvmOk, sent, vcalls >>
    /\ UNCHANGED nForcedResets

\* variant of StartFailedState: a failed vendor start leaves the session STARTING
StartFailedStateStarting == FMRADIO_STATE_STARTING

\* the state a start whose vendor call failed puts the session in
StartFailedState == FMRADIO_STATE_IDLE

\* the vendor start call: STARTED on success, back to IDLE with an I/O error
StartVendor(t) ==
    /\ pc[t] = "start_vendor"
    /\ mutex = t
    /\ vcalls' = [vcalls EXCEPT ![t] = Append(@, [fn |-> "start", locked |-> TRUE])]
    /\ \E ok \in BOOLEAN :
         IF ok
         THEN /\ state' = FMRADIO_STATE_STARTED
              /\ loc' = [loc EXCEPT ![t] =
                          FMRADIO_SET_STATE(@, FMRADIO_STATE_STARTED, "start_started")]
         ELSE /\ state' = StartFailedState
              /\ loc' = [loc EXCEPT ![t] =
                          FMRADIO_SET_STATE([@ EXCEPT !.retval = FMRADIO_IO_ERROR], StartFailedState, "drop_lock")]
    /\ pc' = [pc EXCEPT ![t] = "cb"]
    /\ UNCHANGED << oldState, pendingPause, lastScanAborted, isRegistered,
                    vendorMethods, mutex, jvmOk, sent >>
    /\ UNCHANGED << nOps, nForcedResets >>

StartStarted(t) ==
    /\ pc[t] = "start_started"
    /\ mutex = t
    /\ loc' = [loc EXCEPT ![t] = Calling(@, StartedMsg, "drop_lock")]
    /\ pc' = [pc EXCEPT ![t] = "cb"]
    /\ UNCHANGED << state, oldState, pendingPause, lastScanAborted, isRegistered,
                    vendorMethods, mutex, jvmOk, sent, vcalls >>
    /\ UNCHANGED << nOps, nForcedResets >>

\* start, asynchronous: as the synchronous start up to STARTING; the call
\* returns when the vendor start call has returned, and the vendor driver
\* completes the start later from its own thread
androidFmRadioStartAsync(t) ==
    /\ pc[t] = "idle"
    /\ nOps < MaxOps
    /\ nOps' = nOps + 1
    /\ mutex = None
    /\ mutex' = t
    /\ IF ~androidFmRadioIsValidEventForState("START_ASYNC")
       THEN /\ loc' = [loc EXCEPT ![t] =
                        [Begin("startAsync", "none") EXCEPT !.retval = FMRADIO_INVALID_STATE]]
            /\ pc' = [pc EXCEPT ![t] = "drop_lock"]
            /\ UNCHANGED << state, isRegistered, vendorMethods >>
       ELSE \E lib \in (IF isRegistered THEN {vendorMethods} ELSE CapSets \cup {{}}) :
              IF lib = {}
              THEN /\ loc' = [loc EXCEPT ![t] =
                               [Begin("startAsync", "none") EXCEPT !.retval = FMRADIO_IO_ERROR]]
                   /\ pc' = [pc EXCEPT ![t] = "drop_lock"]
                   /\ UNCHANGED << state, isRegistered, vendorMethods >>
              ELSE /\ isRegistered' = TRUE
                   /\ vendorMethods' = lib
                   /\ state' = FMRADIO_STATE_STARTING
                   /\ loc' = [loc EXCEPT ![t] =
                               FMRADIO_SET_STATE(Begin("startAsync", "none"),
                                                 FMRADIO_STATE_STARTING, "start_vendor_async")]
                   /\ pc' = [pc EXCEPT ![t] = "cb"]
    /\ UNCHANGED << oldState, pendingPause, lastScanAborted, jvmOk, sent, vcalls >>
    /\ UNCHANGED nForcedResets

\* the vendor start call of an asynchronous start: accepted (the driver's
\* thread goes on with it, after the callback it is in when it is in one)
\* or failed (back to IDLE with an I/O error)
StartVendorAsync(t) ==
    /\ pc[t] = "start_vendor_async"
    /\ mutex = t
    /\ vcalls' = [vcalls EXCEPT ![t] = Append(@, [fn |-> "start", locked |-> TRUE])]
    /\ \E ok \in BOOLEAN :
         IF ok
         THEN /\ state' = state
              /\ loc' = IF pc[VendorThread] \in {"idle", "vs_pending"}
                        THEN loc
                        ELSE [loc EXCEPT ![VendorThread].arg = "again"]
              /\ pc' = [pc EXCEPT ![t] = "drop_lock",
                                  ![VendorThread] = IF @ = "idle" THEN "vs_pending" ELSE @]
         ELSE /\ state' = StartFailedState
              /\ loc' = [loc EXCEPT ![t] =
                          FMRADIO_SET_STATE([@ EXCEPT !.retval = FMRADIO_IO_ERROR],
                                            StartFailedState, "drop_lock")]
              /\ pc' = [pc EXCEPT ![t] = "cb"]
    /\ UNCHANGED << oldState, pendingPause, lastScanAborted, isRegistered,
                    vendorMethods, mutex, jvmOk, sent >>
    /\ UNCHANGED << nOps, nForcedResets >>

\* the vendor driver reports the start as done: STARTED when the session
\* is still STARTING
VendorStarted(t) ==
    /\ t = VendorThread
    /\ pc[t] = "vs_pending"
    /\ mutex = None
    /\ mutex' = t
    /\ IF state = FMRADIO_STATE_STARTING
       THEN /\ state' = FMRADIO_STATE_STARTED
            /\ loc' = [loc EXCEPT ![t] =
                        FMRADIO_SET_STATE(Begin("started", "none"),
                                          FMRADIO_STATE_STARTED, "vs_started")]
            /\ pc' = [pc EXCEPT ![t] = "cb"]
       ELSE /\ state' = state
            /\ loc' = [loc EXCEPT ![t] = Begin("started", "none")]
            /\ pc' = [pc EXCEPT ![t] = "vs_exit"]
    /\ UNCHANGED << oldState, pendingPause, lastScanAborted, isRegistered,
                    vendorMethods, jvmOk, sent, vcalls >>
    /\ UNCHANGED << nOps, nForcedResets >>

\* ... then callbacks_p->onStarted
VendorStartedNotify(t) ==
    /\ pc[t] = "vs_started"
    /\ mutex = t
    /\ loc' = [loc EXCEPT ![t] = Calling(@, StartedMsg, "vs_exit")]
    /\ pc' = [pc EXCEPT ![t] = "cb"]
    /\ UNCHANGED << state, oldState, pendingPause, lastScanAborted, isRegistered,
                    vendorMethods, mutex, jvmOk, sent, vcalls >>
    /\ UNCHANGED << nOps, nForcedResets >>

\* ... then unlock
VendorStartedExit(t) ==
    /\ pc[t] = "vs_exit"
    /\ mutex = t
    /\ mutex' = None
    /\ pc' = [pc EXCEPT ![t] = IF loc[t].arg = "again" THEN "vs_pending" ELSE "idle"]
    /\ loc' = [loc EXCEPT ![t] = NoLocals]
    /\ sent' = [sent EXCEPT ![t] = <<>>]
    /\ vcalls' = [vcalls EXCEPT ![t] = <<>>]
    /\ UNCHANGED << state, oldState, pendingPause, lastScanAborted, isRegistered,
                    vendorMethods, jvmOk >>
    /\ UNCHANGED << nOps, nForcedResets >>

\* reset: valid in every state but RESETTING; vendor reset, then IDLE
androidFmRadioReset(t) ==
    /\ pc[t] = "idle"
    /\ nOps < MaxOps
    /\ nOps' = nOps + 1
    /\ mutex = None
    /\ mutex' = t
    /\ IF ~androidFmRadioIsValidEventForState("RESET")
       THEN /\ loc' = [loc EXCEPT ![t] =
                        [Begin("reset", "none") EXCEPT !.retval = FMRADIO_INVALID_STATE]]
            /\ pc' = [pc EXCEPT ![t] = "drop_lock"]
            /\ UNCHANGED << state, vcalls >>
       ELSE /\ vcalls' = [vcalls EXCEPT ![t] =
                            IF "reset" \in vendorMethods
                            THEN Append(@, [fn |-> "reset", locked |-> TRUE])
                            ELSE @]
            /\ IF state # FMRADIO_STATE_IDLE
               THEN /\ state' = FMRADIO_STATE_IDLE
                    /\ loc' = ScansOverridden(
                                [loc EXCEPT ![t] =
                                   FMRADIO_SET_STATE(Begin("reset", "none"), FMRADIO_STATE_IDLE, "drop_lock")], t)
                    /\ pc' = [pc EXCEPT ![t] = "cb"]
               ELSE /\ state' = state
                    /\ loc' = ScansOverridden([loc EXCEPT ![t] = Begin("reset", "none")], t)
                    /\ pc' = [pc EXCEPT ![t] = "drop_lock"]
    /\ UNCHANGED << oldState, pendingPause, lastScanAborted, isRegistered,
                    vendorMethods, jvmOk, sent >>
    /\ UNCHANGED nForcedResets

\* pause: deferred to the end of the scan while one is in flight, else
\* validated, vendor pause, PAUSED
androidFmRadioPause(t) ==
    /\ pc[t] = "idle"
    /\ nOps < MaxOps
    /\ nOps' = nOps + 1
    /\ mutex = None
    /\ mutex' = t
    /\ IF state = FMRADIO_STATE_SCANNING
       THEN /\ pendingPause' = TRUE
            /\ loc' = [loc EXCEPT ![t] = Begin("pause", "none")]
            /\ pc' = [pc EXCEPT ![t] = "drop_lock"]
            /\ UNCHANGED << state, vcalls >>
       ELSE IF ~androidFmRadioIsValidEventForState("PAUSE")
       THEN /\ loc' = [loc EXCEPT ![t] =
                        [Begin("pause", "none") EXCEPT !.retval = FMRADIO_INVALID_STATE]]
            /\ pc' = [pc EXCEPT ![t] = "drop_lock"]
            /\ UNCHANGED << state, pendingPause, vcalls >>
       ELSE IF "pause" \notin vendorMethods
       THEN /\ loc' = [loc EXCEPT ![t] =
                        [Begin("pause", "none")
                           EXCEPT !.retval = FMRADIO_UNSUPPORTED_OPERATION]]
            /\ pc' = [pc EXCEPT ![t] = "drop_lock"]
            /\ UNCHANGED << state, pendingPause, vcalls >>
       ELSE /\ vcalls' = [vcalls EXCEPT ![t] =
                            Append(@, [fn |-> "pause", locked |-> TRUE])]
            /\ UNCHANGED pendingPause
            /\ \E ok \in BOOLEAN :
                 IF ok /\ state # FMRADIO_STATE_PAUSED
                 THEN /\ state' = FMRADIO_STATE_PAUSED
                      /\ loc' = [loc EXCEPT ![t] =
                                  FMRADIO_SET_STATE(Begin("pause", "none"), FMRADIO_STATE_PAUSED, "drop_lock")]
                      /\ pc' = [pc EXCEPT ![t] = "cb"]
                 ELSE /\ state' = state
                      /\ loc' = [loc EXCEPT ![t] =
                                  [Begin("pause", "none") EXCEPT !.retval =
                                     IF ok THEN FMRADIO_OK ELSE FMRADIO_IO_ERROR]]
                      /\ pc' = [pc EXCEPT ![t] = "drop_lock"]
    /\ UNCHANGED << oldState, lastScanAborted, isRegistered, vendorMethods,
                    jvmOk, sent >>
    /\ UNCHANGED nForcedResets

\* resume: validated (rejected while scanning), vendor resume, STARTED
androidFmRadioResume(t) ==
    /\ pc[t] = "idle"
    /\ nOps < MaxOps
    /\ nOps' = nOps + 1
    /\ mutex = None
    /\ mutex' = t
    /\ IF ~androidFmRadioIsValidEventForState("RESUME")
       THEN /\ loc' = [loc EXCEPT ![t] =
                        [Begin("resume", "none") EXCEPT !.retval = FMRADIO_INVALID_STATE]]
            /\ pc' = [pc EXCEPT ![t] = "drop_lock"]
            /\ UNCHANGED << state, vcalls >>
       ELSE IF "resume" \notin vendorMethods
       THEN /\ loc' = [loc EXCEPT ![t] =
                        [Begin("resume", "none")
                           EXCEPT !.retval = FMRADIO_UNSUPPORTED_OPERATION]]
            /\ pc' = [pc EXCEPT ![t] = "drop_lock"]
            /\ UNCHANGED << state, vcalls >>
       ELSE /\ vcalls' = [vcalls EXCEPT ![t] =
                            Append(@, [fn |-> "resume", locked |-> TRUE])]
            /\ \E ok \in BOOLEAN :
                 IF ok /\ state # FMRADIO_STATE_STARTED
                 THEN /\ state' = FMRADIO_STATE_STARTED
                      /\ loc' = [loc EXCEPT ![t] =
                                  FMRADIO_SET_STATE(Begin("resume", "none"), FMRADIO_STATE_STARTED, "drop_lock")]
                      /\ pc' = [pc EXCEPT ![t] = "cb"]
                 ELSE /\ state' = state
                      /\ loc' = [loc EXCEPT ![t] =
                                  [Begin("resume", "none") EXCEPT !.retval =
                                     IF ok THEN FMRADIO_OK ELSE FMRADIO_IO_ERROR]]
                      /\ pc' = [pc EXCEPT ![t] = "drop_lock"]
    /\ UNCHANGED << oldState, pendingPause, lastScanAborted, isRegistered,
                    vendorMethods, jvmOk, sent >>
    /\ UNCHANGED nForcedResets

\* stopScan: sets lastScanAborted; the vendor scan is not preempted
androidFmRadioStopScan(t) ==
    /\ pc[t] = "idle"
    /\ nOps < MaxOps
    /\ nOps' = nOps + 1
    /\ mutex = None
    /\ mutex' = t
    /\ IF ~androidFmRadioIsValidEventForState("STOP_SCAN")
       THEN /\ loc' = [loc EXCEPT ![t] =
                        [Begin("stopScan", "none") EXCEPT !.retval = FMRADIO_INVALID_STATE]]
            /\ UNCHANGED lastScanAborted
       ELSE /\ lastScanAborted' = TRUE
            /\ loc' = [loc EXCEPT ![t] = Begin("stopScan", "none")]
    /\ pc' = [pc EXCEPT ![t] = "drop_lock"]
    /\ UNCHANGED << state, oldState, pendingPause, isRegistered, vendorMethods,
                    jvmOk, sent, vcalls >>
    /\ UNCHANGED nForcedResets

\* sendExtraCommand: validated as EXTRA_COMMAND; the answer of the vendor
\* layer is handed to callbacks_p->onExtraCommand with the lock held
androidFmRadioSendExtraCommand(t) ==
    /\ pc[t] = "idle"
    /\ nOps < MaxOps
    /\ nOps' = nOps + 1
    /\ mutex = None
    /\ mutex' = t
    /\ IF ~androidFmRadioIsValidEventForState("EXTRA_COMMAND")
       THEN /\ loc' = [loc EXCEPT ![t] =
                        [Begin("sendExtraCommand", "none") EXCEPT !.retval = FMRADIO_INVALID_STATE]]
            /\ pc' = [pc EXCEPT ![t] = "drop_lock"]
       ELSE /\ loc' = [loc EXCEPT ![t] =
                        Calling(Begin("sendExtraCommand", "none"),
                                ExtraCommandMsg("command"), "drop_lock")]
            /\ pc' = [pc EXCEPT ![t] = "cb"]
    /\ UNCHANGED << state, oldState, pendingPause, lastScanAborted, isRegistered,
                    vendorMethods, jvmOk, sent, vcalls >>
    /\ UNCHANGED nForcedResets

\* ------------------------------------------------------ the whole system
Next ==
    \/ \E t \in Threads : CallbackEnter(t)
    \/ \E t \in Threads : CallbackReturn(t)
    \/ \E t \in Threads : DropLock(t)
    \/ androidFmRadioRxGetState(Caller)
    \/ androidFmRadioRxScan(Caller)
    \/ androidFmRadioRxStartFullScan(Caller)
    \/ RxScanSpawn(Caller)
    \/ androidFmRadioRxGetSignalStrength(Caller)
    \/ androidFmRadioStart(Caller)
    \/ StartVendor(Caller)
    \/ StartStarted(Caller)
    \/ androidFmRadioReset(Caller)
    \/ androidFmRadioPause(Caller)
    \/ androidFmRadioResume(Caller)
    \/ androidFmRadioStopScan(Caller)
    \/ \E w \in Workers : WFullEntry(w)
    \/ \E w \in Workers : WEnter(w)
    \/ \E w \in Workers : WScanFinal(w)
    \/ \E w \in Workers : WScanPost(w)
    \/ \E w \in Workers : WFullFinal(w)
    \/ \E w \in Workers : WFullPost(w)
    \/ \E w \in Workers : WExit(w)
    \/ RxCallbackOnVendorForcedReset(VendorThread)
    \/ ForcedResetNotify(VendorThread)
    \/ ForcedResetExit(VendorThread)

Spec == Init /\ [][Next]_vars

\* ====================================================== checked properties
\* steps of the calling thread that begin an operation
CallBegins(op) ==
    pc[Caller] = "idle" /\ pc'[Caller] # "idle" /\ loc'[Caller].op = op

\* steps of a worker that end its vendor scan: it has the lock again and
\* has decided what to do with the session state
WorkerFinalizes(w) ==
    pc[w] = "w_vendor" /\ pc'[w] # "w_vendor"

WorkersInFlight == {w \in Workers : InFlight(w)}

\* C1: at every moment at most one spawned scan or full-scan worker has not
\* yet terminated.
C1_AtMostOneWorkerInFlight == Cardinality(WorkersInFlight) <= 1

\* C2: a worker whose vendor scan returns after the session left SCANNING
\* (a reset came in between) leaves the state as it finds it, so a session
\* reset to IDLE stays IDLE, and the only notification the worker delivers is
\* onError, never onScan or onFullScan.
C2_StaleWorkerKeepsState ==
    /\ [][\A w \in Workers :
            (WorkerFinalizes(w) /\ state # "Scanning")
              => /\ state' = state
                 /\ loc'[w].msg = [ev |-> "onError", args |-> <<>>]
                 /\ loc'[w].cont = "w_exit"]_vars
    /\ [](\A w \in Workers :
            (pc[w] = "w_exit" /\ (sent[w] = <<>> \/ sent[w][1].ev # "onStateChanged"))
              => sent[w] = << [ev |-> "onError", args |-> <<>>] >>)

\* C2 happens: reset() has put a scanning session to IDLE (its notification
\* is still being delivered) and the worker of that scan has finished with
\* onError as its only notification, the state still IDLE
C2_Witness ==
    /\ pc[Caller] = "cb_call"
    /\ loc[Caller].op = "reset"
    /\ loc[Caller].msg = StateChangedMsg("Idle", "Scanning")
    /\ state = "Idle"
    /\ \E w \in Workers :
         /\ pc[w] = "w_exit"
         /\ sent[w] = << [ev |-> "onError", args |-> <<>>] >>

\* C3: a scan or full-scan request made while the session is SCANNING is
\* rejected with InvalidState, creates no worker and leaves state, oldState
\* and lastScanAborted unchanged.
C3_ScanWhileScanningRejected ==
    [][((CallBegins("scan") \/ CallBegins("full_scan")) /\ state = "Scanning")
         => /\ pc'[Caller] = "drop_lock"
            /\ ThrownFor(loc'[Caller].retval) = "InvalidState"
            /\ WorkersInFlight' = WorkersInFlight
            /\ UNCHANGED << state, oldState, lastScanAborted >>]_vars

\* C3 happens: a scan request is about to return InvalidState while the
\* worker of the scan in flight is inside the vendor call
C3_Witness ==
    /\ pc[Caller] = "drop_lock"
    /\ loc[Caller].op \in {"scan", "full_scan"}
    /\ loc[Caller].retval = FMRADIO_INVALID_STATE
    /\ state = "Scanning"
    /\ \E w \in Workers : pc[w] = "w_vendor"

\* C4: pause() while the session is SCANNING is deferred: the call changes
\* no state and sets pendingPause; the worker of the scan in flight, when it
\* finalizes with the session still SCANNING, enters PAUSED; and the worker
\* clears pendingPause before it reports its result.
C4_PauseDeferredWhileScanning ==
    [][/\ (CallBegins("pause") /\ state = "Scanning")
            => /\ state' = "Scanning"
               /\ pendingPause'
               /\ pc'[Caller] = "drop_lock"
               /\ ThrownFor(loc'[Caller].retval) = "none"
       /\ \A w \in Workers :
            /\ (WorkerFinalizes(w) /\ state = "Scanning" /\ pendingPause)
                 => /\ state' = "Paused"
                    /\ loc'[w].msg = StateChangedMsg("Paused", "Scanning")
            /\ (pc[w] \in {"w_scan_post", "w_full_post"} /\ pc'[w] # pc[w])
                 => ~pendingPause']_vars

\* C4 happens: a scan begun in STARTED has ended in PAUSED with pendingPause
\* cleared
C4_Witness ==
    \E w \in Workers :
      /\ pc[w] = "w_exit"
      /\ loc[w].oldS = "Started"
      /\ Len(sent[w]) = 2
      /\ sent[w][1] = StateChangedMsg("Paused", "Scanning")
      /\ state = "Paused"
      /\ ~pendingPause

\* the vendor functions an activity has called, in order
FnsCalled(t) == [i \in 1..Len(vcalls[t]) |-> vcalls[t][i].fn]

SentOf(t, ev) == SelectSeq(sent[t], LAMBDA m : m.ev = ev)

\* C6: whatever the state, a forced reset with reason r delivers
\* onForcedReset(r) exactly once and never onError.
C6_ForcedResetNotifiedOnce ==
    (pc[VendorThread] = "fr_exit")
      => /\ SentOf(VendorThread, "onForcedReset")
              = << [ev |-> "onForcedReset", args |-> << loc[VendorThread].arg >>] >>
         /\ SentOf(VendorThread, "onError") = << >>

\* C6 happens: a forced reset of a session that was IDLE already has
\* delivered its notification
C6_Witness ==
    /\ pc[VendorThread] = "fr_exit"
    /\ loc[VendorThread].arg = "hw_failure"
    /\ sent[VendorThread] = << [ev |-> "onForcedReset", args |-> << "hw_failure" >>] >>

\* C7: a forced reset in a state other than IDLE sets the state to IDLE and
\* delivers exactly one onStateChanged, from the old state to IDLE; a forced
\* reset in IDLE changes no state and delivers no onStateChanged.
C7_ForcedResetTransition ==
    /\ [][(pc[VendorThread] = "idle" /\ pc'[VendorThread] # "idle"
              /\ loc'[VendorThread].op = "forcedReset")
            => /\ state' = "Idle"
               /\ IF state # "Idle"
                  THEN /\ pc'[VendorThread] = "cb"
                       /\ loc'[VendorThread].msg = StateChangedMsg("Idle", state)
                       /\ loc'[VendorThread].cont = "fr_notify"
                  ELSE pc'[VendorThread] = "fr_notify"]_vars
    /\ [][(pc[VendorThread] = "fr_notify" /\ pc'[VendorThread] # "fr_notify")
            => loc'[VendorThread].msg.ev # "onStateChanged"]_vars
    /\ []((pc[VendorThread] = "fr_exit")
            => Len(SentOf(VendorThread, "onStateChanged")) <= 1)

\* C7 happens: a forced reset has taken a scanning session to IDLE and
\* delivered one onStateChanged(IDLE, SCANNING), then onForcedReset
C7_Witness ==
    /\ pc[VendorThread] = "fr_exit"
    /\ Len(sent[VendorThread]) = 2
    /\ sent[VendorThread][1] = StateChangedMsg("Idle", "Scanning")
    /\ sent[VendorThread][2].ev = "onForcedReset"

\* C8: reset() is valid in every state but RESETTING; it never fails with
\* InvalidState in a state the session reaches and it leaves the state IDLE,
\* also when a scan worker is in flight.
C8_ResetAlwaysSucceeds ==
    /\ [](\A i \in 1..Len(StateOrder) :
            IsValidRxEventForState["RESET"][i] <=> (StateOrder[i] # "Resetting"))
    /\ [][CallBegins("reset")
            => /\ state' = "Idle"
               /\ ThrownFor(loc'[Caller].retval) = "none"]_vars

\* C8 happens: reset() has taken the session from SCANNING to IDLE while
\* the worker of the scan is inside the vendor call
C8_Witness ==
    /\ pc[Caller] = "cb"
    /\ loc[Caller].op = "reset"
    /\ loc[Caller].msg = StateChangedMsg("Idle", "Scanning")
    /\ state = "Idle"
    /\ \E w \in Workers : pc[w] = "w_vendor"

\* ------------------------------------------------ start() then reset()
\* The client alternates start() and reset(); no scan, no forced reset.
NextStartReset ==
    \/ (nOps % 2 = 0) /\ androidFmRadioStart(Caller)
    \/ StartVendor(Caller)
    \/ StartStarted(Caller)
    \/ (nOps % 2 = 1) /\ androidFmRadioReset(Caller)
    \/ CallbackEnter(Caller)
    \/ CallbackReturn(Caller)
    \/ DropLock(Caller)

SpecStartReset == Init /\ [][NextStartReset]_vars

\* the onStateChanged notifications in msgs describe, one for one and in
\* order, the transitions of a path from state from to state to
NotifiesPath(msgs, from, to) ==
    IF msgs = << >>
    THEN from = to
    ELSE /\ msgs[1].args[2] = from
         /\ msgs[Len(msgs)].args[1] = to
         /\ \A i \in 1..Len(msgs) : msgs[i].args[1] # msgs[i].args[2]
         /\ \A i \in 1..(Len(msgs) - 1) : msgs[i + 1].args[2] = msgs[i].args[1]

\* C9: start() followed at once by reset() ends in IDLE, and the
\* onStateChanged notifications are one for one the transitions taken: those
\* of start() lead from IDLE to the state it leaves, reset() notifies
\* exactly when it leaves a state other than IDLE, and no step changes the
\* state without calling onStateChanged(new, old).
C9_StartThenReset ==
    /\ []((pc[Caller] = "drop_lock" /\ loc[Caller].op = "start")
            => NotifiesPath(SentOf(Caller, "onStateChanged"), "Idle", state))
    /\ []((pc[Caller] = "drop_lock" /\ loc[Caller].op = "reset")
            => /\ state = "Idle"
               /\ Len(SentOf(Caller, "onStateChanged")) <= 1
               /\ \A i \in 1..Len(sent[Caller]) :
                    /\ sent[Caller][i].ev = "onStateChanged"
                    /\ sent[Caller][i].args[1] = "Idle"
                    /\ sent[Caller][i].args[2] # "Idle")
    /\ [][CallBegins("reset")
            => IF state = "Idle"
               THEN state' = "Idle" /\ pc'[Caller] = "drop_lock"
               ELSE /\ state' = "Idle"
                    /\ pc'[Caller] = "cb"
                    /\ loc'[Caller].msg.ev = "onStateChanged"
                    /\ loc'[Caller].msg.args = << "Idle", state >>]_vars
    /\ [][state' # state
            => /\ pc'[Caller] = "cb"
               /\ loc'[Caller].msg.ev = "onStateChanged"
               /\ loc'[Caller].msg.args = << state', state >>]_vars

\* C9 happens: the reset() that follows a successful start() has notified
\* its one transition and is about to return
C9_Witness ==
    /\ nOps = 2
    /\ pc[Caller] = "drop_lock"
    /\ loc[Caller].op = "reset"
    /\ state = "Idle"
    /\ Len(sent[Caller]) = 1
    /\ sent[Caller][1].args = << "Idle", "Started" >>

\* ------------------------------------------------ one scan at a time
\* The client starts the session and scans up or down, each request made
\* when no worker is in flight; nothing else happens.
NextScanAlone ==
    \/ (WorkersInFlight = {}) /\ androidFmRadioStart(Caller)
    \/ StartVendor(Caller)
    \/ StartStarted(Caller)
    \/ (WorkersInFlight = {}) /\ androidFmRadioRxScan(Caller)
    \/ RxScanSpawn(Caller)
    \/ \E t \in Threads : CallbackEnter(t)
    \/ \E t \in Threads : CallbackReturn(t)
    \/ DropLock(Caller)
    \/ \E w \in Workers : WEnter(w)
    \/ \E w \in Workers : WScanFinal(w)
    \/ \E w \in Workers : WScanPost(w)
    \/ \E w \in Workers : WExit(w)

SpecScanAlone == Init /\ [][NextScanAlone]_vars

\* C10: a scan requested in STARTED and not interleaved with anything takes
\* the session to SCANNING (one onStateChanged by the request); when the
\* vendor scan returns f >= 0 the worker takes it back to STARTED, delivers
\* onStateChanged and then exactly one onScan(f, strength, false), strength
\* being the vendor's signal strength or -1 when the library has no such
\* function, and never onError.
C10_ScanAloneSucceeds ==
    /\ (pc[Caller] = "drop_lock" /\ loc[Caller].op = "scan"
          /\ ThrownFor(loc[Caller].retval) = "none")
         => /\ state = "Scanning"
            /\ sent[Caller] = << [ev |-> "onStateChanged", args |-> << "Scanning", "Started" >>] >>
    /\ \A w \in Workers :
         (pc[w] = "w_exit" /\ loc[w].retval >= 0)
           => /\ state = "Started"
              /\ loc[w].retval \in ScanResults
              /\ IF "get_signal_strength" \in vendorMethods
                 THEN loc[w].sig \in SignalValues
                 ELSE loc[w].sig = -1
              /\ sent[w] = << [ev |-> "onStateChanged", args |-> << "Started", "Scanning" >>],
                              [ev |-> "onScan",
                               args |-> << loc[w].retval, loc[w].sig, FALSE >>] >>

\* C10 happens: the worker of a scan has found 983 with signal strength 7,
\* the session is STARTED again
C10_Witness ==
    \E w \in Workers :
      /\ pc[w] = "w_exit"
      /\ state = "Started"
      /\ Len(sent[w]) = 2
      /\ sent[w][2] = [ev |-> "onScan", args |-> << 983, 7, FALSE >>]

\* ------------------------------------------------ calls without scans
\* The client calls the operations that need no worker, one after another;
\* the vendor driver completes asynchronous starts.
NextCalls ==
    \/ androidFmRadioRxGetState(Caller)
    \/ androidFmRadioRxGetSignalStrength(Caller)
    \/ androidFmRadioStart(Caller)
    \/ StartVendor(Caller)
    \/ StartStarted(Caller)
    \/ androidFmRadioStartAsync(Caller)
    \/ StartVendorAsync(Caller)
    \/ androidFmRadioReset(Caller)
    \/ androidFmRadioPause(Caller)
    \/ androidFmRadioResume(Caller)
    \/ androidFmRadioStopScan(Caller)
    \/ \E op \in ParamOps : RxParamOp(Caller, op)
    \/ \E q \in Queries : RxQuery(Caller, q)
    \/ \E t \in {Caller, VendorThread} : CallbackEnter(t)
    \/ \E t \in {Caller, VendorThread} : CallbackReturn(t)
    \/ DropLock(Caller)
    \/ UnlockOnly(Caller)
    \/ VendorStarted(VendorThread)
    \/ VendorStartedNotify(VendorThread)
    \/ VendorStartedExit(VendorThread)

SpecCalls == Init /\ [][NextCalls]_vars

\* ------------------------------------------------ every operation
\* The whole system with the parameter operations and the capability
\* queries among the client's calls.
NextAll ==
    \/ Next
    \/ \E op \in ParamOps : RxParamOp(Caller, op)
    \/ \E q \in Queries : RxQuery(Caller, q)
    \/ UnlockOnly(Caller)

SpecAll == Init /\ [][NextAll]_vars

\* ------------------------------------------------ parameter operations
\* C11: every parameter operation (setAutomaticAFSwitching,
\* setAutomaticTASwitching, setForceMono, setThreshold, getThreshold) made in
\* PAUSED with its vendor function present calls vendor resume, then the
\* vendor function, then vendor pause, and the state is PAUSED all along.
C11_ParamOpsBracketed ==
    \A op \in ParamOps :
      (pc[Caller] = "drop_lock" /\ loc[Caller].op = op
          /\ ParamVendorFn(op) \in vendorMethods /\ state = "Paused")
        => FnsCalled(Caller) = << "resume", ParamVendorFn(op), "pause" >>

\* C12: setAutomaticAFSwitching(true) called in PAUSED (after pause()) with
\* the vendor function present and succeeding returns without an exception,
\* delivers no onStateChanged (no notification at all), and the state is
\* PAUSED when the vendor function has run and when the call returns.
C12_PausedSetAfSucceeds ==
    /\ [][(CallBegins("setAutomaticAFSwitching") /\ state = "Paused"
             /\ "set_automatic_af_switching" \in vendorMethods
             /\ loc'[Caller].retval = FMRADIO_OK)
            => /\ state' = "Paused"
               /\ sent'[Caller] = << >>
               /\ Thrown(Caller)' = "none"]_vars
    /\ [][(pc[Caller] = "drop_lock" /\ loc[Caller].op = "setAutomaticAFSwitching"
             /\ state = "Paused" /\ loc[Caller].retval = FMRADIO_OK)
            => /\ state' = "Paused"
               /\ sent' = sent
               /\ pc'[Caller] = "idle"]_vars

\* C12 happens: after pause(), setAutomaticAFSwitching has called the vendor
\* function, which succeeded, and is about to return
C12_Witness ==
    /\ pc[Caller] = "drop_lock"
    /\ loc[Caller].op = "setAutomaticAFSwitching"
    /\ state = "Paused"
    /\ loc[Caller].retval = FMRADIO_OK
    /\ FnsCalled(Caller) = << "set_automatic_af_switching" >>
    /\ sent[Caller] = << >>

\* ------------------------------------------------ every operation, claims
\* the operations that need a vendor function, with the event each is
\* validated as and the vendor function each needs
GatedOps ==
    { << "scan", "SCAN", "scan" >>,
      << "full_scan", "FULL_SCAN", "full_scan" >>,
      << "getSignalStrength", "GET_SIGNAL_STRENGTH", "get_signal_strength" >>,
      << "setAutomaticAFSwitching", "SET_PARAMETER", "set_automatic_af_switching" >>,
      << "setAutomaticTASwitching", "SET_PARAMETER", "set_automatic_ta_switching" >>,
      << "setForceMono", "SET_PARAMETER", "set_force_mono" >>,
      << "setThreshold", "SET_PARAMETER", "set_threshold" >>,
      << "getThreshold", "GET_PARAMETER", "get_threshold" >> }

\* C13: an operation that needs a vendor function (scan, full scan,
\* getSignalStrength, setForceMono, setThreshold, getThreshold,
\* setAutomaticAF/TASwitching), called in a state its event is valid in with a
\* vendor library that lacks the function, fails with UnsupportedOperation
\* and not with IoError, creates no worker, calls no vendor function and
\* leaves the state as it is.
C13_AbsentFnUnsupported ==
    [][\A g \in GatedOps :
         (CallBegins(g[1])
            /\ IsValidRxEventForState[g[2]][StateIndex(state)]
            /\ g[3] \notin vendorMethods)
           => /\ Thrown(Caller)' = "UnsupportedOperation"
              /\ state' = state
              /\ vcalls'[Caller] = << >>
              /\ WorkersInFlight' = WorkersInFlight]_vars

\* C14: an operation of the client called in a state its event is not valid
\* in fails with InvalidState and does nothing else: state, oldState,
\* pendingPause and lastScanAborted keep their values, no vendor function is
\* called, no worker is created and no notification is delivered. (Stated
\* for the operations that validate their event in this file.)
C14_InvalidEventRejected ==
    [][\A g \in GatedOps :
         (CallBegins(g[1]) /\ ~IsValidRxEventForState[g[2]][StateIndex(state)])
           => /\ Thrown(Caller)' = "InvalidState"
              /\ state' = state
              /\ oldState' = oldState
              /\ pendingPause' = pendingPause
              /\ lastScanAborted' = lastScanAborted
              /\ vcalls'[Caller] = << >>
              /\ sent'[Caller] = << >>
              /\ WorkersInFlight' = WorkersInFlight]_vars

\* ------------------------------------------------ starts in every state
\* The client starts the session, synchronously or asynchronously, in the
\* states that pause(), reset() and a scan take it to; the vendor driver
\* completes asynchronous starts. No forced reset.
NextStarts ==
    \/ androidFmRadioStart(Caller)
    \/ StartVendor(Caller)
    \/ StartStarted(Caller)
    \/ androidFmRadioStartAsync(Caller)
    \/ StartVendorAsync(Caller)
    \/ androidFmRadioPause(Caller)
    \/ androidFmRadioReset(Caller)
    \/ androidFmRadioRxScan(Caller)
    \/ RxScanSpawn(Caller)
    \/ \E t \in Threads : CallbackEnter(t)
    \/ \E t \in Threads : CallbackReturn(t)
    \/ DropLock(Caller)
    \/ VendorStarted(VendorThread)
    \/ VendorStartedNotify(VendorThread)
    \/ VendorStartedExit(VendorThread)
    \/ \E w \in Workers : WEnter(w)
    \/ \E w \in Workers : WScanFinal(w)
    \/ \E w \in Workers : WScanPost(w)
    \/ \E w \in Workers : WExit(w)

SpecStarts == Init /\ [][NextStarts]_vars

\* C15: start() and startAsync() fail with InvalidState in every state
\* other than IDLE, changing nothing; when the vendor start call fails they
\* fail with IoError and put the session in IDLE, where it is when the call
\* returns (it is not left STARTING).
C15_StartFailures ==
    /\ [][\A op \in {"start", "startAsync"} :
            (CallBegins(op) /\ state # "Idle")
              => /\ Thrown(Caller)' = "InvalidState"
                 /\ state' = state
                 /\ vcalls'[Caller] = << >>]_vars
    /\ [][(pc[Caller] \in {"start_vendor", "start_vendor_async"}
             /\ pc'[Caller] # pc[Caller]
             /\ loc'[Caller].retval < 0)
            => /\ state' = "Idle"
               /\ ThrownFor(loc'[Caller].retval) = "IoError"]_vars
    /\ [](\A op \in {"start", "startAsync"} :
            (pc[Caller] = "drop_lock" /\ loc[Caller].op = op
               /\ Thrown(Caller) = "IoError")
              => state = "Idle")

\* C15 happens: startAsync() has called the vendor start, which failed; the
\* session went to STARTING and back to IDLE and the call is about to raise
\* the I/O error
C15_Witness ==
    /\ pc[Caller] = "drop_lock"
    /\ loc[Caller].op = "startAsync"
    /\ Thrown(Caller) = "IoError"
    /\ FnsCalled(Caller) = << "start" >>
    /\ state = "Idle"
    /\ sent[Caller] = << [ev |-> "onStateChanged", args |-> << "Starting", "Idle" >>],
                          [ev |-> "onStateChanged", args |-> << "Idle", "Starting" >>] >>

\* ------------------------------------------------ capability queries
\* the queries with the vendor function each looks at
QueryFnOf ==
    { << "isSignalStrengthSupported", "get_signal_strength" >>,
      << "isPlayingInStereo", "is_playing_in_stereo" >>,
      << "isRDSDataSupported", "is_rds_data_supported" >>,
      << "isTunedToValidChannel", "is_tuned_to_valid_channel" >> }

\* C16: isSignalStrengthSupported, isPlayingInStereo, isRDSDataSupported and
\* isTunedToValidChannel answer false as long as no vendor library is
\* registered, whatever the state, and call no vendor function then; once a
\* library is registered they answer false when it lacks the function. They
\* never raise an exception and never change the session (state, oldState,
\* pendingPause, lastScanAborted) nor deliver a notification.
C16_QueriesDefaultFalse ==
    /\ [][\A q \in QueryFnOf :
            CallBegins(q[1])
              => /\ pc'[Caller] = "unlock_only"
                 /\ Thrown(Caller)' = "none"
                 /\ loc'[Caller].got \in {"false", "true"}
                 /\ ~isRegistered
                      => (loc'[Caller].got = "false" /\ vcalls'[Caller] = << >>)
                 /\ (isRegistered /\ q[2] \notin vendorMethods)
                      => (loc'[Caller].got = "false" /\ vcalls'[Caller] = << >>)
                 /\ << state, oldState, pendingPause, lastScanAborted, isRegistered, sent >>'
                      = << state, oldState, pendingPause, lastScanAborted, isRegistered, sent >>]_vars
    /\ [][pc[Caller] = "unlock_only"
            => /\ pc'[Caller] = "idle"
               /\ << state, oldState, pendingPause, lastScanAborted, isRegistered >>'
                    = << state, oldState, pendingPause, lastScanAborted, isRegistered >>]_vars

\* C16 happens: isPlayingInStereo() on a session that has never been started
\* (no library registered) is about to return false
C16_Witness ==
    /\ pc[Caller] = "unlock_only"
    /\ loc[Caller].op = "isPlayingInStereo"
    /\ ~isRegistered
    /\ loc[Caller].got = "false"
    /\ vcalls[Caller] = << >>

\* ------------------------------------------------ scans and parameters
\* The client starts the session, synchronously or asynchronously, pauses
\* it, requests scans and full scans and gets and sets parameters, in any
\* order, with the workers running. No reset, no forced reset.
NextScansParams ==
    \/ androidFmRadioStart(Caller)
    \/ StartVendor(Caller)
    \/ StartStarted(Caller)
    \/ androidFmRadioStartAsync(Caller)
    \/ StartVendorAsync(Caller)
    \/ androidFmRadioPause(Caller)
    \/ androidFmRadioRxScan(Caller)
    \/ androidFmRadioRxStartFullScan(Caller)
    \/ RxScanSpawn(Caller)
    \/ \E op \in ParamOps : RxParamOp(Caller, op)
    \/ \E t \in Threads : CallbackEnter(t)
    \/ \E t \in Threads : CallbackReturn(t)
    \/ DropLock(Caller)
    \/ UnlockOnly(Caller)
    \/ VendorStarted(VendorThread)
    \/ VendorStartedNotify(VendorThread)
    \/ VendorStartedExit(VendorThread)
    \/ \E w \in Workers : WFullEntry(w)
    \/ \E w \in Workers : WEnter(w)
    \/ \E w \in Workers : WScanFinal(w)
    \/ \E w \in Workers : WScanPost(w)
    \/ \E w \in Workers : WFullFinal(w)
    \/ \E w \in Workers : WFullPost(w)
    \/ \E w \in Workers : WExit(w)

SpecScansParams == Init /\ [][NextScansParams]_vars

\* ------------------------------------------------ the transition table
\* the operations of this file that validate one of C17's events, with the event
ScanAndParamOps ==
    { << "scan", "SCAN" >>, << "full_scan", "FULL_SCAN" >>,
      << "setAutomaticAFSwitching", "SET_PARAMETER" >>,
      << "setAutomaticTASwitching", "SET_PARAMETER" >>,
      << "setForceMono", "SET_PARAMETER" >>,
      << "setThreshold", "SET_PARAMETER" >>,
      << "getThreshold", "GET_PARAMETER" >> }

\* C17: in the transition table PAUSE, RESUME, GET_PARAMETER, SET_PARAMETER,
\* SCAN and FULL_SCAN are valid in STARTED and PAUSED and in no other state
\* (IDLE, STARTING, SCANNING, ERROR_CONDITION, RESETTING); the scan, full
\* scan and parameter operations are turned down as invalid exactly outside
\* STARTED and PAUSED.
C17_StartedOrPausedRows ==
    /\ [](\A ev \in {"PAUSE", "RESUME", "GET_PARAMETER", "SET_PARAMETER",
                     "SCAN", "FULL_SCAN"} :
            \A i \in 1..Len(StateOrder) :
              IsValidRxEventForState[ev][i] <=> (StateOrder[i] \in {"Started", "Paused"}))
    /\ [][\A g \in ScanAndParamOps :
            CallBegins(g[1])
              => ((loc'[Caller].retval = FMRADIO_INVALID_STATE)
                     <=> (state \notin {"Started", "Paused"}))]_vars

\* C17 happens: a full scan requested in PAUSED has been accepted, the
\* session is SCANNING and remembers PAUSED
C17_Witness ==
    /\ pc[Caller] = "scan_spawn"
    /\ loc[Caller].op = "full_scan"
    /\ state = "Scanning"
    /\ oldState = "Paused"
    /\ sent[Caller] = << [ev |-> "onStateChanged", args |-> << "Scanning", "Paused" >>] >>

\* C18: in the transition table RESET, FORCED_PAUSE, STOP_SCAN and
\* EXTRA_COMMAND are valid in IDLE, STARTING, STARTED, PAUSED, SCANNING and
\* ERROR_CONDITION and invalid in RESETTING only; reset() and stopScan() are
\* never turned down as invalid in a state other than RESETTING.
C18_AllButResettingRows ==
    /\ [](\A ev \in {"RESET", "FORCED_PAUSE", "STOP_SCAN", "EXTRA_COMMAND"} :
            \A i \in 1..Len(StateOrder) :
              IsValidRxEventForState[ev][i] <=> (StateOrder[i] # "Resetting"))
    /\ [][\A op \in {"reset", "stopScan"} :
            CallBegins(op)
              => ((loc'[Caller].retval = FMRADIO_INVALID_STATE)
                     <=> (state = "Resetting"))]_vars

\* C18 happens: stopScan() called while a scan is in flight has been
\* accepted
C18_Witness ==
    /\ pc[Caller] = "drop_lock"
    /\ loc[Caller].op = "stopScan"
    /\ state = "Scanning"
    /\ Thrown(Caller) = "none"
    /\ lastScanAborted
    /\ \E w \in Workers : pc[w] = "w_vendor"

\* C19: in the transition table GET_SIGNAL_STRENGTH is valid in STARTED and
\* in no other state, PAUSED included; getSignalStrength() is turned down as
\* invalid exactly when the state is not STARTED.
C19_SignalStrengthRow ==
    /\ [](\A i \in 1..Len(StateOrder) :
            IsValidRxEventForState["GET_SIGNAL_STRENGTH"][i] <=> (StateOrder[i] = "Started"))
    /\ [][CallBegins("getSignalStrength")
            => ((loc'[Caller].retval = FMRADIO_INVALID_STATE) <=> (state # "Started"))]_vars

\* C19 happens: getSignalStrength() in STARTED has been accepted and the
\* vendor function has answered 7
C19_Witness ==
    /\ pc[Caller] = "drop_lock"
    /\ loc[Caller].op = "getSignalStrength"
    /\ state = "Started"
    /\ FnsCalled(Caller) = << "get_signal_strength" >>
    /\ loc[Caller].retval = 7

\* C20: in the transition table START and START_ASYNC are valid in IDLE and
\* in no other state; start() and startAsync() are turned down as invalid
\* exactly when the state is not IDLE.
C20_StartRows ==
    /\ [](\A ev \in {"START", "START_ASYNC"} :
            \A i \in 1..Len(StateOrder) :
              IsValidRxEventForState[ev][i] <=> (StateOrder[i] = "Idle"))
    /\ [][\A op \in {"start", "startAsync"} :
            CallBegins(op)
              => ((loc'[Caller].retval = FMRADIO_INVALID_STATE) <=> (state # "Idle"))]_vars

\* C20 happens: startAsync() called in IDLE has been accepted, the vendor
\* start call has returned and the session is STARTING until the vendor
\* driver reports the start as done
C20_Witness ==
    /\ pc[Caller] = "drop_lock"
    /\ loc[Caller].op = "startAsync"
    /\ Thrown(Caller) = "none"
    /\ FnsCalled(Caller) = << "start" >>
    /\ state = "Starting"
    /\ pc[VendorThread] = "vs_pending"

\* C21: in the transition table BLOCK_SCAN is invalid in every one of the
\* seven states; whatever state the session is in, the event is not valid
\* for it.
C21_BlockScanRow ==
    /\ Len(StateOrder) = Len(IsValidRxEventForState["BLOCK_SCAN"])
    /\ \A i \in 1..Len(StateOrder) : ~IsValidRxEventForState["BLOCK_SCAN"][i]
    /\ ~IsValidRxEventForState["BLOCK_SCAN"][StateIndex(state)]

\* C21 happens: the session is SCANNING with a worker inside the vendor
\* scan, and BLOCK_SCAN is looked up as invalid for that state
C21_Witness ==
    /\ state = "Scanning"
    /\ \E w \in Workers : pc[w] = "w_vendor"
    /\ IsValidRxEventForState["BLOCK_SCAN"][StateIndex(state)] = FALSE

\* ------------------------------------------------ scan workers, claims
\* C22: a full scan whose vendor call returns 0 items while the session is
\* still SCANNING is reported by exactly one onFullScan with zero items and
\* empty lists, and not by onError.
C22_EmptyFullScanIsResult ==
    \A w \in Workers :
      (pc[w] = "w_exit" /\ loc[w].op = "full_scan" /\ loc[w].retval = 0)
        => /\ SentOf(w, "onError") = << >>
           /\ Len(SentOf(w, "onFullScan")) = 1
           /\ \E aborted \in BOOLEAN :
                SentOf(w, "onFullScan")[1].args = << 0, << >>, << >>, aborted >>

\* C22 happens: the worker of a full scan requested in STARTED has got 0
\* items from the vendor, has restored STARTED and has delivered onFullScan
C22_Witness ==
    \E w \in Workers :
      /\ pc[w] = "w_exit"
      /\ loc[w].op = "full_scan"
      /\ loc[w].retval = 0
      /\ FnsCalled(w) = << "full_scan" >>
      /\ sent[w] = << [ev |-> "onStateChanged", args |-> << "Started", "Scanning" >>],
                      [ev |-> "onFullScan", args |-> << 0, << >>, << >>, FALSE >>] >>

\* the activity has called the vendor function
HasCalled(t, fn) == \E i \in 1..Len(vcalls[t]) : vcalls[t][i].fn = fn

\* every vendor resume of the activity is followed by a vendor pause
ResumesMatched(t) ==
    \A i \in 1..Len(vcalls[t]) :
      vcalls[t][i].fn = "resume"
        => \E j \in (i+1)..Len(vcalls[t]) : vcalls[t][j].fn = "pause"

\* C23: the full-scan worker follows the power-state protocol of the
\* single-scan worker: when it finalizes while the session is still
\* SCANNING with the remembered state PAUSED or a pause pending, it calls
\* vendor pause before the state becomes PAUSED, so that the vendor resume
\* it issued on entry is matched by a later vendor pause.
C23_FullScanRestoresPower ==
    [][\A w \in Workers :
         (WorkerFinalizes(w) /\ loc[w].op = "full_scan" /\ state = "Scanning"
            /\ (loc[w].oldS = "Paused" \/ pendingPause))
           => /\ state' = "Paused"
              /\ HasCalled(w, "pause")'
              /\ ResumesMatched(w)']_vars

\* how many times the activity has called the vendor function
TimesCalled(t, fn) == Cardinality({i \in 1..Len(vcalls[t]) : vcalls[t][i].fn = fn})

\* C24: when the single-scan worker has the lock again and the session is
\* still SCANNING, the state becomes PAUSED with exactly one vendor pause
\* call if a pause is pending or the state the worker remembered on entry is
\* PAUSED, and otherwise the remembered state with no vendor pause call,
\* whichever result the vendor scan returned; no later step of the worker
\* calls vendor pause.
C24_ScanRestoresPower ==
    [][\A w \in Workers :
         /\ (WorkerFinalizes(w) /\ loc[w].op = "scan" /\ state = "Scanning")
              => /\ loc'[w].retval \in {-1, 983}
                 /\ IF pendingPause \/ loc[w].oldS = "Paused"
                    THEN state' = "Paused" /\ TimesCalled(w, "pause")' = 1
                    ELSE state' = loc[w].oldS /\ TimesCalled(w, "pause")' = 0
         /\ (loc[w].op = "scan" /\ pc[w] \in {"cb", "cb_call", "w_scan_post"})
              => TimesCalled(w, "pause")' = TimesCalled(w, "pause")]_vars

\* C24 happens: a scan begun in STARTED whose vendor call failed has ended in
\* PAUSED with one vendor pause, because a pause was pending, and reports the
\* error
C24_Witness ==
    \E w \in Workers :
      /\ pc[w] = "w_exit"
      /\ loc[w].op = "scan"
      /\ loc[w].oldS = "Started"
      /\ loc[w].retval = -1
      /\ state = "Paused"
      /\ FnsCalled(w) = << "scan", "pause" >>
      /\ sent[w] = << [ev |-> "onStateChanged", args |-> << "Paused", "Scanning" >>],
                      [ev |-> "onError", args |-> << >>] >>

\* ------------------------------------------------ scan workers
\* The client starts the receiver, requests scans and full scans, pauses,
\* stops scans and resets, in any order, while the workers run.
NextScans ==
    \/ androidFmRadioStart(Caller)
    \/ StartVendor(Caller)
    \/ StartStarted(Caller)
    \/ androidFmRadioRxScan(Caller)
    \/ androidFmRadioRxStartFullScan(Caller)
    \/ RxScanSpawn(Caller)
    \/ androidFmRadioPause(Caller)
    \/ androidFmRadioStopScan(Caller)
    \/ androidFmRadioReset(Caller)
    \/ \E t \in Threads : CallbackEnter(t)
    \/ \E t \in Threads : CallbackReturn(t)
    \/ DropLock(Caller)
    \/ \E w \in Workers : WFullEntry(w)
    \/ \E w \in Workers : WEnter(w)
    \/ \E w \in Workers : WScanFinal(w)
    \/ \E w \in Workers : WScanPost(w)
    \/ \E w \in Workers : WFullFinal(w)
    \/ \E w \in Workers : WFullPost(w)
    \/ \E w \in Workers : WExit(w)

SpecScans == Init /\ [][NextScans]_vars

\* C25: a scan worker delivers onError exactly when the vendor scan or full
\* scan returned an error or the session was no longer SCANNING when the
\* worker took the lock again; in every other case it delivers onScan (single
\* scan) or onFullScan (full scan); it delivers exactly one of the two, never
\* a result and an error.
C25_ResultOrError ==
    /\ [][\A w \in Workers :
            /\ (WorkerFinalizes(w) /\ state # "Scanning")
                 => /\ loc'[w].retval < 0
                    /\ loc'[w].msg = [ev |-> "onError", args |-> << >>]
                    /\ loc'[w].cont = "w_exit"
            /\ (WorkerFinalizes(w) /\ state = "Scanning")
                 => /\ loc'[w].retval \in {-1, 0, 2, 983}
                    /\ loc'[w].msg.ev = "onStateChanged"
            /\ (pc[w] \in {"cb", "cb_call", "w_scan_post", "w_full_post"})
                 => loc'[w].retval = loc[w].retval]_vars
    /\ [](\A w \in Workers :
            pc[w] = "w_exit"
              => LET result == IF loc[w].op = "scan" THEN "onScan" ELSE "onFullScan"
                     other  == IF loc[w].op = "scan" THEN "onFullScan" ELSE "onScan"
                 IN  /\ SentOf(w, other) = << >>
                     /\ IF loc[w].retval < 0
                        THEN Len(SentOf(w, "onError")) = 1 /\ SentOf(w, result) = << >>
                        ELSE Len(SentOf(w, result)) = 1 /\ SentOf(w, "onError") = << >>)

\* C25 happens: a full scan whose vendor call failed while the session was
\* still SCANNING has restored the state and then delivered onError alone
C25_Witness ==
    \E w \in Workers :
      /\ pc[w] = "w_exit"
      /\ loc[w].op = "full_scan"
      /\ loc[w].retval = -1
      /\ state = "Started"
      /\ sent[w] = << [ev |-> "onStateChanged", args |-> << "Started", "Scanning" >>],
                      [ev |-> "onError", args |-> << >>] >>

\* steps of a worker that hand a scan result to the notifier
WorkerReports(w) ==
    /\ pc[w] \in {"w_scan_post", "w_full_post"}
    /\ pc'[w] # pc[w]
    /\ loc'[w].msg.ev \in {"onScan", "onFullScan"}

\* the aborted flag of a scan result
AbortedFlag(msg) == msg.args[Len(msg.args)]

InitStarted ==
    /\ state = FMRADIO_STATE_STARTED
    /\ oldState = FMRADIO_STATE_IDLE
    /\ pendingPause = FALSE
    /\ lastScanAborted = FALSE
    /\ isRegistered = TRUE
    /\ vendorMethods \in CapSets
    /\ mutex = None
    /\ jvmOk = TRUE
    /\ pc = [t \in Threads |-> IF t \in Workers THEN "free" ELSE "idle"]
    /\ loc = [t \in Threads |-> NoLocals]
    /\ sent = [t \in Threads |-> <<>>]
    /\ vcalls = [t \in Threads |-> <<>>]
    /\ nOps = 0
    /\ nForcedResets = 0

\* The client of a started receiver requests scans and full scans and stops
\* them, in any order, while the workers run.
NextStartedScans ==
    \/ androidFmRadioRxScan(Caller)
    \/ androidFmRadioRxStartFullScan(Caller)
    \/ RxScanSpawn(Caller)
    \/ androidFmRadioStopScan(Caller)
    \/ \E t \in Threads : CallbackEnter(t)
    \/ \E t \in Threads : CallbackReturn(t)
    \/ DropLock(Caller)
    \/ \E w \in Workers : WFullEntry(w)
    \/ \E w \in Workers : WEnter(w)
    \/ \E w \in Workers : WScanFinal(w)
    \/ \E w \in Workers : WScanPost(w)
    \/ \E w \in Workers : WFullFinal(w)
    \/ \E w \in Workers : WFullPost(w)
    \/ \E w \in Workers : WExit(w)

SpecStartedScans == InitStarted /\ [][NextStartedScans]_vars

\* C27: lastScanAborted is false when a scan or full-scan request has been
\* accepted and its worker is created; when a stopScan request set it while
\* the worker was inside the vendor call (it was false when the worker
\* entered and is true when the vendor call has returned), the worker's
\* onScan or onFullScan carries aborted = true; only a stopScan request sets
\* it, so that without one since the acceptance the result carries
\* aborted = false.
C27_StopScanMarksResult ==
    [][/\ \A w \in Workers :
            (pc[w] = "free" /\ pc'[w] # "free") => ~lastScanAborted'
       /\ (~lastScanAborted /\ lastScanAborted') => CallBegins("stopScan")
       /\ \A w \in Workers :
            WorkerReports(w)
              => /\ (~loc[w].abortedAtEntry /\ loc[w].abortedAtReturn)
                      => AbortedFlag(loc'[w].msg) = TRUE
                 /\ ~lastScanAborted => AbortedFlag(loc'[w].msg) = FALSE]_vars

\* steps of a worker that end its finalization: it is about to report
WorkerEndsFinalization(w) ==
    pc[w] \in {"w_scan_post", "w_full_post"} /\ pc'[w] # pc[w]

\* C28: every scan worker, single or full, clears pendingPause at its
\* finalization after the vendor scan has returned, when the session is
\* still SCANNING (before it reports) and when it is not (the stale path);
\* no other step of the receiver clears it.
C28_PendingPauseClearedAtFinalization ==
    [][/\ \A w \in Workers :
            /\ (WorkerFinalizes(w) /\ state # "Scanning") => ~pendingPause'
            /\ WorkerEndsFinalization(w) => ~pendingPause'
       /\ (pendingPause /\ ~pendingPause')
            => \E w \in Workers : WorkerFinalizes(w) \/ WorkerEndsFinalization(w)]_vars

\* C29: the worker does not hold the session lock while it is inside the
\* vendor scan or full_scan call: it has released the lock before the call
\* and has it again only when the call has returned, so that callers'
\* operations and forced resets can take the lock during the vendor scan.
C29_VendorScanUnlocked ==
    \A w \in Workers :
      /\ pc[w] = "w_vendor" => mutex # w
      /\ mutex = w => pc[w] \in {"cb", "w_scan_post", "w_full_post", "w_exit"}
      /\ \A i \in 1..Len(vcalls[w]) :
           vcalls[w][i].fn \in {"scan", "full_scan"} => ~vcalls[w][i].locked

\* C29 happens: the vendor's thread holds the lock for a forced reset while
\* a worker is inside the vendor scan
C29_Witness ==
    \E w \in Workers :
      /\ pc[w] = "w_vendor"
      /\ mutex = VendorThread
      /\ pc[VendorThread] = "cb"
      /\ loc[VendorThread].msg = [ev |-> "onStateChanged", args |-> << "Idle", "Scanning" >>]

\* ------------------------------------------------ notifications
\* Every kind of notification: the client starts the receiver with its
\* first call, then scans (one scan at a time: a scan is requested when no
\* worker is in flight) and sends extra commands, while the workers run and
\* the vendor layer reports events and forces resets.
NextNotifies ==
    \/ (nOps = 0) /\ androidFmRadioStart(Caller)
    \/ StartVendor(Caller)
    \/ StartStarted(Caller)
    \/ (nOps > 0 /\ WorkersInFlight = {}) /\ androidFmRadioRxScan(Caller)
    \/ (nOps > 0 /\ WorkersInFlight = {}) /\ androidFmRadioRxStartFullScan(Caller)
    \/ RxScanSpawn(Caller)
    \/ (nOps > 0) /\ androidFmRadioSendExtraCommand(Caller)
    \/ \E t \in Threads : CallbackEnter(t)
    \/ \E t \in Threads : CallbackReturn(t)
    \/ DropLock(Caller)
    \/ \E w \in Workers : WFullEntry(w)
    \/ \E w \in Workers : WEnter(w)
    \/ \E w \in Workers : WScanFinal(w)
    \/ \E w \in Workers : WScanPost(w)
    \/ \E w \in Workers : WFullFinal(w)
    \/ \E w \in Workers : WFullPost(w)
    \/ \E w \in Workers : WExit(w)
    \/ RxCallbackOnVendorForcedReset(VendorThread)
    \/ ForcedResetNotify(VendorThread)
    \/ ForcedResetExit(VendorThread)
    \/ RxCallbackOnVendorEvent(VendorThread)
    \/ VendorEventExit(VendorThread)

SpecNotifies == Init /\ [][NextNotifies]_vars

\* C30: no notification (onStateChanged, onError, onStarted, onScan,
\* onFullScan, onForcedReset, onExtraCommand, onRdsDataFound,
\* onSignalStrengthChanged, onPlayingInStereo, onAutomaticSwitch) is
\* delivered while the delivering thread holds the session lock: the thread
\* holds the lock up to the delivery, releases it with the step that begins
\* the delivery, holds it again with the step that ends the delivery, and
\* nothing is delivered in any other step.
C30_DeliveriesUnlocked ==
    /\ [](\A t \in Threads : pc[t] = "cb_call" => mutex # t)
    /\ [][\A t \in Threads :
            /\ (pc[t] # "cb_call" /\ pc'[t] = "cb_call")
                 => mutex = t /\ mutex' = None
            /\ (pc[t] = "cb_call" /\ pc'[t] # "cb_call")
                 => /\ mutex = None /\ mutex' = t
                    /\ sent'[t] = Append(sent[t], loc[t].msg)
                    /\ loc[t].msg.ev \in
                         { "onStateChanged", "onError", "onStarted", "onScan",
                           "onFullScan", "onForcedReset", "onExtraCommand",
                           "onRdsDataFound", "onSignalStrengthChanged",
                           "onPlayingInStereo", "onAutomaticSwitch" }
            /\ (sent'[t] # sent[t] /\ sent'[t] # << >>) => pc[t] = "cb_call"]_vars

\* C30 happens: the vendor's thread is delivering onRdsDataFound while the
\* caller, inside sendExtraCommand, holds the lock that the vendor's thread
\* has released, and a worker is delivering onScan at the same time
C30_Witness ==
    /\ pc[VendorThread] = "cb_call"
    /\ loc[VendorThread].msg.ev = "onRdsDataFound"
    /\ mutex = Caller
    /\ loc[Caller].op = "sendExtraCommand"
    /\ \E w \in Workers : pc[w] = "cb_call" /\ loc[w].msg.ev = "onScan"

\* ------------------------------------------------ lock discipline, claims
\* C31: no thread holds the session lock at the moment it invokes a vendor
\* function from which the driver may deliver a forced reset synchronously
\* (resume, pause, scan, full_scan, get_signal_strength, set_force_mono,
\* set_threshold, get_threshold, set_automatic_af/ta_switching), so that the
\* forced-reset callback, which takes the lock itself, cannot deadlock
\* against its own thread.
C31_VendorCallsUnlocked ==
    \A t \in Threads :
      \A i \in 1..Len(vcalls[t]) :
        vcalls[t][i].fn \in
            { "resume", "pause", "scan", "full_scan", "get_signal_strength",
              "set_force_mono", "set_threshold", "get_threshold",
              "set_automatic_af_switching", "set_automatic_ta_switching" }
          => ~vcalls[t][i].locked

\* the calling thread is inside an accepted scan or full-scan request: it
\* has validated the event and set the state, and has not yet cleared
\* lastScanAborted and created the worker
ScanRequestUnderWay ==
    /\ loc[Caller].op \in {"scan", "full_scan"}
    /\ \/ pc[Caller] = "scan_spawn"
       \/ pc[Caller] \in {"cb", "cb_call"} /\ loc[Caller].cont = "scan_spawn"

\* C32: the validity check and the effects of an accepted scan request
\* happen in one uninterrupted critical section: from the validation of the
\* event until the request has set the state to SCANNING, cleared
\* lastScanAborted and created its worker, no other thread changes the
\* state: the state changes in a step of the calling thread only.
C32_ScanRequestUninterrupted ==
    [][(ScanRequestUnderWay /\ state' # state) => pc'[Caller] # pc[Caller]]_vars

\* ------------------------------------------------ restarts during scans
\* The session after a successful start(), or after start() and pause():
\* the vendor library is bound and the state is STARTED or PAUSED.
InitStartedOrPaused ==
    /\ state \in {FMRADIO_STATE_STARTED, FMRADIO_STATE_PAUSED}
    /\ oldState = FMRADIO_STATE_IDLE
    /\ pendingPause = FALSE
    /\ lastScanAborted = FALSE
    /\ isRegistered = TRUE
    /\ vendorMethods \in CapSets
    /\ mutex = None
    /\ jvmOk = TRUE
    /\ pc = [t \in Threads |-> IF t \in Workers THEN "free" ELSE "idle"]
    /\ loc = [t \in Threads |-> NoLocals]
    /\ sent = [t \in Threads |-> <<>>]
    /\ vcalls = [t \in Threads |-> <<>>]
    /\ nOps = 0
    /\ nForcedResets = 0

\* The client of such a receiver requests scans and full scans, resets and
\* starts the session again while the workers run and the vendor layer
\* forces resets.
NextRestarts ==
    \/ androidFmRadioRxScan(Caller)
    \/ androidFmRadioRxStartFullScan(Caller)
    \/ RxScanSpawn(Caller)
    \/ androidFmRadioReset(Caller)
    \/ androidFmRadioStart(Caller)
    \/ StartVendor(Caller)
    \/ StartStarted(Caller)
    \/ \E t \in Threads : CallbackEnter(t)
    \/ \E t \in Threads : CallbackReturn(t)
    \/ DropLock(Caller)
    \/ \E w \in Workers : WFullEntry(w)
    \/ \E w \in Workers : WEnter(w)
    \/ \E w \in Workers : WScanFinal(w)
    \/ \E w \in Workers : WScanPost(w)
    \/ \E w \in Workers : WFullFinal(w)
    \/ \E w \in Workers : WFullPost(w)
    \/ \E w \in Workers : WExit(w)
    \/ RxCallbackOnVendorForcedReset(VendorThread)
    \/ ForcedResetNotify(VendorThread)
    \/ ForcedResetExit(VendorThread)

SpecRestarts == InitStartedOrPaused /\ [][NextRestarts]_vars

\* C33: a scan worker finalizes the session state for its own scan only:
\* when reset() or a forced reset came after its scan request was accepted,
\* the worker does not change the state when it has the lock again, even if
\* the session has been started again since and a newer scan has put the
\* state back to SCANNING.
C33_OverriddenWorkerKeepsState ==
    [][\A w \in Workers :
         (WorkerFinalizes(w) /\ loc[w].overridden) => state' = state]_vars

\* ------------------------------------------------ progress of the workers
\* Fair scheduling: a thread that is inside an operation, a worker or a
\* callback of the vendor layer and can take its next step (the lock it
\* waits for is free, the vendor call or the delivery it is in returns)
\* eventually takes it.  The client is not obliged to call anything.
FairScans ==
    /\ \A t \in Threads : WF_vars(CallbackEnter(t)) /\ WF_vars(CallbackReturn(t))
    /\ WF_vars(DropLock(Caller))
    /\ WF_vars(RxScanSpawn(Caller))
    /\ WF_vars(StartVendor(Caller))
    /\ WF_vars(StartStarted(Caller))
    /\ \A w \in Workers :
         /\ WF_vars(WFullEntry(w))
         /\ WF_vars(WEnter(w))
         /\ WF_vars(WScanFinal(w))
         /\ WF_vars(WScanPost(w))
         /\ WF_vars(WFullFinal(w))
         /\ WF_vars(WFullPost(w))
         /\ WF_vars(WExit(w))

SpecScansFair == SpecScans /\ FairScans

\* the result notifications a worker has delivered
ResultsSent(w) ==
    Len(SentOf(w, "onScan")) + Len(SentOf(w, "onFullScan")) + Len(SentOf(w, "onError"))

\* C34: every accepted scan or full-scan request (its worker has been
\* created) eventually leads to exactly one result notification from its
\* worker, onScan/onFullScan or onError, after which the worker terminates
\* without holding the lock; before its result the worker has delivered
\* none.
C34_WorkerReportsAndTerminates ==
    /\ \A w \in Workers :
         (pc[w] = "w_start") ~> (pc[w] = "w_exit" /\ ResultsSent(w) = 1)
    /\ \A w \in Workers :
         (pc[w] = "w_exit") ~> (pc[w] = "free" /\ mutex # w)
    /\ [](\A w \in Workers :
            /\ pc[w] \notin {"free", "w_exit"} => ResultsSent(w) = 0
            /\ pc[w] = "free" => mutex # w)

\* C34 happens: the worker of a full scan that reset() made stale has
\* delivered onError as its one notification and is about to terminate
C34_Witness ==
    \E w \in Workers :
      /\ pc[w] = "w_exit"
      /\ loc[w].op = "full_scan"
      /\ sent[w] = << [ev |-> "onError", args |-> << >>] >>
      /\ state = "Idle"

\* C35: the previous state a scan worker uses for the restoration is the
\* state, STARTED or PAUSED, the session had when the worker's own scan
\* request was validated; nothing overwrites it between the request and the
\* worker's read.
C35_WorkerReadsOwnOldState ==
    [][\A w \in Workers :
         (pc[w] = "w_start" /\ pc'[w] # "w_start")
           => /\ loc[w].reqS \in {"Started", "Paused"}
              /\ loc'[w].oldS = loc[w].reqS]_vars

\* C36: whenever no scan worker is in flight and the state is not SCANNING,
\* pendingPause is false; in particular a scan that reset() or a forced
\* reset made stale leaves no pending pause behind for a later scan.
C36_NoPendingPauseAtRest ==
    (WorkersInFlight = {} /\ state # "Scanning") => ~pendingPause

\* C37: the vendor get_signal_strength function is never invoked while the
\* tuner is powered down: in the single-scan worker the signal strength of
\* a found frequency is fetched before any vendor pause that restores the
\* paused state, so no vendor pause of the worker precedes its
\* get_signal_strength call.
C37_SignalStrengthBeforePause ==
    \A w \in Workers :
      \A i, j \in 1..Len(vcalls[w]) :
        (vcalls[w][i].fn = "pause" /\ vcalls[w][j].fn = "get_signal_strength")
          => j < i

\* C38: when the worker thread of a valid scan or full-scan request cannot
\* be created, the request puts the session to IDLE (one onStateChanged from
\* SCANNING to IDLE), creates no worker and fails with IoError, and the state
\* is IDLE when the request returns: the STARTED or PAUSED state the request
\* was issued from is not restored.
C38_SpawnFailureEndsIdle ==
    /\ [][(pc[Caller] = "scan_spawn" /\ pc'[Caller] # "scan_spawn"
             /\ loc'[Caller].retval # 0)
            => /\ state' = "Idle"
               /\ loc'[Caller].retval = -1
               /\ ThrownFor(loc'[Caller].retval) = "IoError"
               /\ loc'[Caller].msg = [ev |-> "onStateChanged", args |-> << "Idle", state >>]
               /\ loc'[Caller].cont = "drop_lock"
               /\ \A w \in Workers : pc'[w] = pc[w]]_vars
    /\ [][(pc[Caller] = "scan_spawn" /\ pc'[Caller] # "scan_spawn"
             /\ loc'[Caller].retval = 0)
            => \E w \in Workers : pc[w] = "free" /\ pc'[w] = "w_start"]_vars
    /\ []((pc[Caller] = "drop_lock" /\ loc[Caller].op \in {"scan", "full_scan"}
             /\ loc[Caller].retval = -1)
            => /\ state = "Idle"
               /\ loc[Caller].reqS \in {"Started", "Paused"}
               /\ Thrown(Caller) = "IoError")

\* C38 happens: a full scan requested in PAUSED could not create its
\* worker; the session went to SCANNING and then to IDLE, no worker is in
\* flight and the request is about to raise the I/O error
C38_Witness ==
    /\ pc[Caller] = "drop_lock"
    /\ loc[Caller].op = "full_scan"
    /\ loc[Caller].retval = -1
    /\ state = "Idle"
    /\ WorkersInFlight = {}
    /\ sent[Caller] = << [ev |-> "onStateChanged", args |-> << "Scanning", "Paused" >>],
                          [ev |-> "onStateChanged", args |-> << "Idle", "Scanning" >>] >>

\* C39: onStateChanged notifications reach the notifier in the order the
\* transitions were made: a thread delivers its onStateChanged only when the
\* notification of every earlier transition has been delivered, so that the
\* new state of the last onStateChanged delivered is the state of the
\* session once nothing is under way.
C39_StateChangesDeliveredInOrder ==
    [][\A t \in Threads :
         (pc[t] = "cb_call" /\ pc'[t] # "cb_call" /\ loc[t].msg.ev = "onStateChanged")
           => loc[t].before = {}]_vars

\* ------------------------------------------- a JVM that may refuse threads
\* A started receiver, every vendor function present, whose threads may fail
\* to attach to the JVM (AttachCurrentThread != JNI_OK), so that a helper may
\* skip its delivery.
InitStartedAnyJvm ==
    /\ state = FMRADIO_STATE_STARTED
    /\ oldState = FMRADIO_STATE_IDLE
    /\ pendingPause = FALSE
    /\ lastScanAborted = FALSE
    /\ isRegistered = TRUE
    /\ vendorMethods = VendorFns
    /\ mutex = None
    /\ jvmOk = FALSE
    /\ pc = [t \in Threads |-> IF t \in Workers THEN "free" ELSE "idle"]
    /\ loc = [t \in Threads |-> NoLocals]
    /\ sent = [t \in Threads |-> <<>>]
    /\ vcalls = [t \in Threads |-> <<>>]
    /\ nOps = 0
    /\ nForcedResets = 0

\* The entry points of the receiver that are in this file: calls of the
\* client (getState, setThreshold, scan, full scan), the scan workers and the
\* callbacks of the vendor layer.  A scan is requested when no worker runs.
NextLocks ==
    \/ androidFmRadioRxGetState(Caller)
    \/ RxParamOp(Caller, "setThreshold")
    \/ (WorkersInFlight = {}) /\ androidFmRadioRxScan(Caller)
    \/ (WorkersInFlight = {}) /\ androidFmRadioRxStartFullScan(Caller)
    \/ RxScanSpawn(Caller)
    \/ \E t \in Threads : CallbackEnter(t)
    \/ \E t \in Threads : CallbackReturn(t)
    \/ DropLock(Caller)
    \/ UnlockOnly(Caller)
    \/ \E w \in Workers : WFullEntry(w)
    \/ \E w \in Workers : WEnter(w)
    \/ \E w \in Workers : WScanFinal(w)
    \/ \E w \in Workers : WScanPost(w)
    \/ \E w \in Workers : WFullFinal(w)
    \/ \E w \in Workers : WFullPost(w)
    \/ \E w \in Workers : WExit(w)
    \/ RxCallbackOnVendorForcedReset(VendorThread)
    \/ ForcedResetNotify(VendorThread)
    \/ ForcedResetExit(VendorThread)
    \/ RxCallbackOnVendorEvent(VendorThread)
    \/ VendorEventExit(VendorThread)

SpecLocks == InitStartedAnyJvm /\ [][NextLocks]_vars

\* a thread is inside a notifier helper
InHelper(t) == pc[t] \in {"cb", "cb_call"}

\* a thread is outside every entry point
AtRest(t) == pc[t] \in {"idle", "free"}

\* C40: the lock discipline is balanced on every path: an entry point
\* (a call of the client, a scan worker, a callback of the vendor layer)
\* returns with the session lock not held by its thread; the lock is only
\* ever released by the thread that holds it; a notifier helper is entered
\* with the lock held and returns with the lock held, whether it delivered
\* or skipped the delivery.
C40_LockBalanced ==
    /\ [](\A t \in Threads :
            /\ AtRest(t) => mutex # t
            /\ pc[t] = "cb" => mutex = t)
    /\ [][/\ \A t \in Threads :
               /\ (~AtRest(t) /\ AtRest(t)') => (mutex = t /\ mutex' = None)
               /\ (InHelper(t) /\ ~InHelper(t)') => mutex' = t
               /\ (pc[t] = "cb" /\ pc'[t] \notin {"cb", "cb_call"})
                    => (mutex' = t /\ sent'[t] = sent[t])
          /\ (mutex # None /\ mutex' # mutex)
               => (mutex' = None /\ pc'[mutex] # pc[mutex])]_vars

\* a worker has skipped every delivery and is about to return: nothing was
\* delivered and it holds the lock
C40_Witness ==
    \E w \in Workers :
       /\ ~jvmOk
       /\ pc[w] = "w_exit"
       /\ sent[w] = << >>
       /\ mutex = w

====
